---- MODULE Spec2Model ----
(***************************************************************************)
(* State-machine model of the News backend services:                       *)
(*   AdService (booking conflicts, lifecycle, tracking, listing),          *)
(*   VideoProcessingService, errorHandler, createApp's CORS middleware     *)
(*   stack, MemoService and the memo router.                               *)
(* Dates are integer instants; a calendar day is DayTicks instants long.   *)
(***************************************************************************)
EXTENDS Integers, Sequences, FiniteSets, TLC

\* ------------------------------------------------------------------ bounds
MaxAds == 2
MaxDate == 2
MaxOps == 4
DayTicks == 2

NULL == "NULL"
UNDEF == "UNDEF"

\* an absent date in a request body
NoDate == -1

\* ------------------------------------------------------------------ users
ROLE == {"ADMIN", "SUPER_ADMIN", "ADVERTISER", "EDITOR", "USER"}

UserIds == {"adv1", "adv2", "admin1", "user1"}

RoleOf(u) ==
  CASE u = "adv1" -> "ADVERTISER"
    [] u = "adv2" -> "ADVERTISER"
    [] u = "admin1" -> "ADMIN"
    [] u = "super1" -> "SUPER_ADMIN"
    [] OTHER -> "USER"

VARIABLES ads, nextAdId, now, immediateQueue, adOp, adOut, opCount

adVars == <<ads, nextAdId, now, immediateQueue, adOp, adOut, opCount>>

VARIABLES media, pv, batch

videoVars == <<media, pv, batch>>

VARIABLES memos, nextMemoId, memoOp, memoReq

memoVars == <<memos, nextMemoId, memoOp, memoReq>>

VARIABLES http

VARIABLES errIn, errOut

errVars == <<errIn, errOut>>

VARIABLES creating, tracking

VARIABLES db, del

userVars == <<db, del>>

nonAdVars == <<videoVars, memoVars, http, errVars, creating, tracking, userVars>>

vars == <<adVars, videoVars, memoVars, http, errVars, creating, tracking, userVars>>

\* ------------------------------------------------------------ AdService
NoAd == [status |-> "NONE"]

AdIds == 1..MaxAds

Dates == 0..MaxDate

Positions == {"HEADER", "SIDEBAR", ""}

Exists(id) == id \in AdIds /\ ads[id] # NoAd

StartOfDay(t) == t - (t % DayTicks)

\* Math.ceil((end - start) / msPerDay) for end > start
DurationDays(start, end) == ((end - start) + DayTicks - 1) \div DayTicks

MIN_AD_DURATION_DAYS == 1
MAX_AD_DURATION_DAYS == 1

ConflictClauses_NoContainment(a, startDate, endDate) ==
  \/ (a.startDate <= startDate /\ a.endDate >= startDate)
  \/ (a.startDate <= endDate /\ a.endDate >= endDate)

\* the OR of the four where-clauses of checkBookingConflict
ConflictClauses(a, startDate, endDate) ==
  \/ (a.startDate <= startDate /\ a.endDate >= startDate)
  \/ (a.startDate <= endDate /\ a.endDate >= endDate)
  \/ (a.startDate >= startDate /\ a.endDate <= endDate)
  \/ (a.startDate <= startDate /\ a.endDate >= endDate)

\* rows matched by checkBookingConflict's whereClause; excludeAdId = 0 when absent
ConflictingAds(table, startDate, endDate, position, excludeAdId) ==
  { i \in AdIds :
      /\ table[i] # NoAd
      /\ table[i].status \in {"ACTIVE", "PENDING"}
      /\ ConflictClauses(table[i], startDate, endDate)
      /\ (position # "" => table[i].position = position)
      /\ (excludeAdId # 0 => i # excludeAdId) }

checkBookingConflict(table, startDate, endDate, position, excludeAdId) ==
  ConflictingAds(table, startDate, endDate, position, excludeAdId) # {}

NoOut == [kind |-> "none"]

\* a request is taken up when the previous one has returned; the model stops
\* after MaxOps requests
Handled ==
  /\ adOp.op = "none"
  /\ opCount < MaxOps
  /\ opCount' = opCount + 1
  /\ UNCHANGED nonAdVars

OpRec(op, err) == [op |-> op, err |-> err]

IsAdmin(role) == role \in {"ADMIN", "SUPER_ADMIN"}

\* the first validation of createAd that fails, "ok" when all pass
CreateAdError(data) ==
  IF data.startDate < StartOfDay(now) THEN "PAST"
  ELSE IF data.endDate <= data.startDate THEN "END_BEFORE_START"
  ELSE IF DurationDays(data.startDate, data.endDate) < MIN_AD_DURATION_DAYS THEN "TOO_SHORT"
  ELSE IF DurationDays(data.startDate, data.endDate) > MAX_AD_DURATION_DAYS THEN "TOO_LONG"
  ELSE IF data.position # ""
          /\ checkBookingConflict(ads, data.startDate, data.endDate, data.position, 0)
       THEN "BOOKED"
  ELSE IF data.price = "bad" THEN "PRICE"
  ELSE "ok"

NewAd_AdminUnpaid(data, userId, role) ==
  [advertiserId |-> userId,
   position |-> data.position,
   startDate |-> data.startDate,
   endDate |-> data.endDate,
   type |-> data.type,
   status |-> IF IsAdmin(role) THEN "ACTIVE" ELSE "PENDING",
   isPaid |-> FALSE,
   rejectionReason |-> NULL,
   impressions |-> 0,
   clicks |-> 0,
   activeTxn |-> FALSE]

NewAd(data, userId, role) ==
  [advertiserId |-> userId,
   position |-> data.position,
   startDate |-> data.startDate,
   endDate |-> data.endDate,
   type |-> data.type,
   status |-> IF IsAdmin(role) THEN "ACTIVE" ELSE "PENDING",
   isPaid |-> IsAdmin(role),
   rejectionReason |-> NULL,
   impressions |-> 0,
   clicks |-> 0,
   activeTxn |-> FALSE]

createAd(data, userId, role) ==
  LET err == CreateAdError(data) IN
  /\ nextAdId <= MaxAds
  /\ Handled
  /\ adOp' = OpRec("createAd", err)
  /\ IF err = "ok"
       THEN /\ ads' = [ads EXCEPT ![nextAdId] = NewAd(data, userId, role)]
            /\ nextAdId' = nextAdId + 1
       ELSE UNCHANGED <<ads, nextAdId>>
  /\ UNCHANGED <<now, immediateQueue, adOut>>

\* createPaymentIntent: stripeOk is whether the Stripe call succeeds
PaymentIntentError(adId, userId, stripeOk) ==
  IF ~Exists(adId) THEN "NOT_FOUND"
  ELSE IF ads[adId].advertiserId # userId THEN "UNAUTHORIZED"
  ELSE IF ads[adId].isPaid THEN "ALREADY_PAID"
  ELSE IF ~stripeOk THEN "STRIPE"
  ELSE "ok"

createPaymentIntent(adId, userId, stripeOk) ==
  LET err == PaymentIntentError(adId, userId, stripeOk) IN
  /\ Handled
  /\ adOp' = OpRec("createPaymentIntent", err)
  /\ UNCHANGED <<ads, nextAdId, now, immediateQueue, adOut>>

\* effective values of updateAd's conflict check
PositionToCheck(ad, data) == IF data.position # UNDEF THEN data.position ELSE ad.position
StartDateToCheck(ad, data) == IF data.startDate # NoDate THEN data.startDate ELSE ad.startDate
EndDateToCheck(ad, data) == IF data.endDate # NoDate THEN data.endDate ELSE ad.endDate

UpdateAdError(id, data, userId, role) ==
  IF ~Exists(id) THEN "NOT_FOUND"
  ELSE IF role = "ADVERTISER" /\ ads[id].advertiserId # userId THEN "UNAUTHORIZED"
  ELSE IF data.price = "bad" THEN "PRICE"
  ELSE IF data.startDate # NoDate /\ data.startDate < StartOfDay(now) THEN "PAST"
  ELSE IF data.startDate # NoDate /\ data.endDate # NoDate /\ data.endDate <= data.startDate
       THEN "END_BEFORE_START"
  ELSE IF /\ PositionToCheck(ads[id], data) # ""
          /\ (data.startDate # NoDate \/ data.endDate # NoDate \/ data.position # UNDEF)
          /\ checkBookingConflict(ads, StartDateToCheck(ads[id], data),
                                  EndDateToCheck(ads[id], data),
                                  PositionToCheck(ads[id], data), id)
       THEN "BOOKED"
  ELSE "ok"

\* prisma.ad.update({ data: updateData }): only the supplied fields are written
ApplyUpdate(ad, data) ==
  [ad EXCEPT !.startDate = IF data.startDate # NoDate THEN data.startDate ELSE @,
             !.endDate = IF data.endDate # NoDate THEN data.endDate ELSE @,
             !.position = IF data.position # UNDEF THEN data.position ELSE @,
             !.type = IF data.type # UNDEF THEN data.type ELSE @]

updateAd(id, data, userId, role) ==
  LET err == UpdateAdError(id, data, userId, role) IN
  /\ Handled
  /\ adOp' = OpRec("updateAd", err)
  /\ ads' = IF err = "ok" THEN [ads EXCEPT ![id] = ApplyUpdate(@, data)] ELSE ads
  /\ UNCHANGED <<nextAdId, now, immediateQueue, adOut>>

ApproveAdError_NoPaidCheck(adId) ==
  IF ~Exists(adId) THEN "NOT_FOUND"
  ELSE IF ads[adId].status # "PENDING" THEN "NOT_PENDING"
  ELSE "ok"

ApproveAdError(adId) ==
  IF ~Exists(adId) THEN "NOT_FOUND"
  ELSE IF ads[adId].status # "PENDING" THEN "NOT_PENDING"
  ELSE IF ~ads[adId].isPaid THEN "NOT_PAID"
  ELSE "ok"

approveAd(adId) ==
  LET err == ApproveAdError(adId) IN
  /\ Handled
  /\ adOp' = OpRec("approveAd", err)
  /\ ads' = IF err = "ok"
              THEN [ads EXCEPT ![adId].status = "ACTIVE", ![adId].rejectionReason = NULL]
              ELSE ads
  /\ UNCHANGED <<nextAdId, now, immediateQueue, adOut>>

RejectAdError_AnyStatus(adId) ==
  IF ~Exists(adId) THEN "NOT_FOUND" ELSE "ok"

RejectAdError(adId) ==
  IF ~Exists(adId) THEN "NOT_FOUND"
  ELSE IF ads[adId].status # "PENDING" THEN "NOT_PENDING"
  ELSE "ok"

rejectAd(adId, reason) ==
  LET err == RejectAdError(adId) IN
  /\ Handled
  /\ adOp' = OpRec("rejectAd", err)
  /\ ads' = IF err = "ok"
              THEN [ads EXCEPT ![adId].status = "REJECTED", ![adId].rejectionReason = reason]
              ELSE ads
  /\ UNCHANGED <<nextAdId, now, immediateQueue, adOut>>

DeleteAdError(adId, userId, role) ==
  IF ~Exists(adId) THEN "NOT_FOUND"
  ELSE IF role = "ADVERTISER" /\ ads[adId].advertiserId # userId THEN "UNAUTHORIZED"
  ELSE IF ads[adId].activeTxn THEN "ACTIVE_TRANSACTIONS"
  ELSE "ok"

deleteAd(adId, userId, role) ==
  LET err == DeleteAdError(adId, userId, role) IN
  /\ Handled
  /\ adOp' = OpRec("deleteAd", err)
  /\ ads' = IF err = "ok" THEN [ads EXCEPT ![adId] = NoAd] ELSE ads
  /\ UNCHANGED <<nextAdId, now, immediateQueue, adOut>>

\* variant of PauseAdError without the ownership check
PauseAdError_NoOwnerCheck(adId, userId, role) ==
  IF ~Exists(adId) THEN "NOT_FOUND"
  ELSE IF ads[adId].status # "ACTIVE" THEN "NOT_ACTIVE"
  ELSE "ok"

PauseAdError(adId, userId, role) ==
  IF ~Exists(adId) THEN "NOT_FOUND"
  ELSE IF role = "ADVERTISER" /\ ads[adId].advertiserId # userId THEN "UNAUTHORIZED"
  ELSE IF ads[adId].status # "ACTIVE" THEN "NOT_ACTIVE"
  ELSE "ok"

pauseAd(adId, userId, role) ==
  LET err == PauseAdError(adId, userId, role) IN
  /\ Handled
  /\ adOp' = OpRec("pauseAd", err)
  /\ ads' = IF err = "ok" THEN [ads EXCEPT ![adId].status = "PAUSED"] ELSE ads
  /\ UNCHANGED <<nextAdId, now, immediateQueue, adOut>>

ResumeAdError(adId, userId, role) ==
  IF ~Exists(adId) THEN "NOT_FOUND"
  ELSE IF role = "ADVERTISER" /\ ads[adId].advertiserId # userId THEN "UNAUTHORIZED"
  ELSE IF ads[adId].status # "PAUSED" THEN "NOT_PAUSED"
  ELSE IF ads[adId].endDate < now THEN "EXPIRED"
  ELSE "ok"

ResumedStatus_AlwaysActive(ad) == "ACTIVE"

ResumedStatus(ad) ==
  IF ad.startDate > now
    THEN (IF ad.isPaid THEN "ACTIVE" ELSE "PENDING")
    ELSE "ACTIVE"

resumeAd(adId, userId, role) ==
  LET err == ResumeAdError(adId, userId, role) IN
  /\ Handled
  /\ adOp' = OpRec("resumeAd", err)
  /\ ads' = IF err = "ok" THEN [ads EXCEPT ![adId].status = ResumedStatus(ads[adId])] ELSE ads
  /\ UNCHANGED <<nextAdId, now, immediateQueue, adOut>>

GetAdAnalyticsError(adId, userId, role) ==
  IF ~Exists(adId) THEN "NOT_FOUND"
  ELSE IF role = "ADVERTISER" /\ ads[adId].advertiserId # userId THEN "UNAUTHORIZED"
  ELSE "ok"

getAdAnalytics(adId, userId, role) ==
  LET err == GetAdAnalyticsError(adId, userId, role) IN
  /\ Handled
  /\ adOp' = OpRec("getAdAnalytics", err)
  /\ adOut' = IF err = "ok"
                THEN [kind |-> "analytics", impressions |-> ads[adId].impressions, clicks |-> ads[adId].clicks,
                      status |-> ads[adId].status]
                ELSE NoOut
  /\ UNCHANGED <<ads, nextAdId, now, immediateQueue>>

\* handleStripeWebhook: event = [type, adId]; adId = 0 when the metadata has none.
\* prisma.ad.update on a missing row throws P2025.
WebhookError(event) ==
  IF event.type = "payment_intent.succeeded" /\ event.adId # 0 /\ ~Exists(event.adId)
    THEN "P2025" ELSE "ok"

handleStripeWebhook_AnyType(event) ==
  /\ Handled
  /\ adOp' = OpRec("handleStripeWebhook", "ok")
  /\ ads' = IF event.adId # 0 /\ Exists(event.adId)
              THEN [ads EXCEPT ![event.adId].isPaid = TRUE, ![event.adId].status = "ACTIVE"]
              ELSE ads
  /\ UNCHANGED <<nextAdId, now, immediateQueue, adOut>>

handleStripeWebhook(event) ==
  /\ Handled
  /\ adOp' = OpRec("handleStripeWebhook", WebhookError(event))
  /\ ads' = IF event.type = "payment_intent.succeeded" /\ event.adId # 0 /\ Exists(event.adId)
              THEN [ads EXCEPT ![event.adId].isPaid = TRUE, ![event.adId].status = "ACTIVE"]
              ELSE ads
  /\ UNCHANGED <<nextAdId, now, immediateQueue, adOut>>

\* variant of Track that increments impressions whatever counter was asked for
Track_WrongCounter(adId, field, kind) ==
  /\ Handled
  /\ IF Exists(adId)
       THEN /\ ads' = [ads EXCEPT ![adId].impressions = @ + 1]
            /\ immediateQueue' = Append(immediateQueue, [kind |-> kind, adId |-> adId])
            /\ adOp' = OpRec(kind, "ok")
       ELSE /\ UNCHANGED <<ads, immediateQueue>>
            /\ adOp' = OpRec(kind, "P2025")
  /\ UNCHANGED <<nextAdId, now, adOut>>

\* trackImpression / trackClick: prisma.ad.update throws P2025 on a missing row,
\* otherwise the counter is incremented and the GA4 callback is queued
Track(adId, field, kind) ==
  /\ Handled
  /\ IF Exists(adId)
       THEN /\ ads' = [ads EXCEPT ![adId][field] = @ + 1]
            /\ immediateQueue' = Append(immediateQueue, [kind |-> kind, adId |-> adId])
            /\ adOp' = OpRec(kind, "ok")
       ELSE /\ UNCHANGED <<ads, immediateQueue>>
            /\ adOp' = OpRec(kind, "P2025")
  /\ UNCHANGED <<nextAdId, now, adOut>>

trackImpression(adId) == Track(adId, "impressions", "trackImpression")

trackClick(adId) == Track(adId, "clicks", "trackClick")

\* the setImmediate callback: the GA4 call succeeds or throws (caught and logged)
\* it runs after the pending call has returned to its caller (promise continuations
\* run before the timers/immediates of the event loop)
RunImmediate(ga4Ok) ==
  /\ adOp.op = "none"
  /\ immediateQueue # <<>>
  /\ immediateQueue' = Tail(immediateQueue)
  /\ UNCHANGED <<ads, nextAdId, now, adOp, adOut, opCount>>
  /\ UNCHANGED nonAdVars

\* ----- getAds
Slots == {"HEADER", "TOP_BANNER", "SIDEBAR", "INLINE", "FOOTER", "MID_PAGE",
          "BETWEEN_SECTIONS", "MOBILE"}

slotToTypeMap(slot) ==
  CASE slot = "HEADER" -> {"BANNER_TOP"}
    [] slot = "TOP_BANNER" -> {"BANNER_TOP", "SLIDER_TOP"}
    [] slot = "SIDEBAR" -> {"BANNER_SIDE"}
    [] slot = "INLINE" -> {"INLINE"}
    [] slot = "FOOTER" -> {"FOOTER"}
    [] slot = "MID_PAGE" -> {"INLINE", "BANNER_TOP"}
    [] slot = "BETWEEN_SECTIONS" -> {"INLINE", "BANNER_TOP"}
    [] slot = "MOBILE" -> {"BANNER_SIDE", "BANNER_TOP", "INLINE"}
    [] OTHER -> {}

slotToPositionMap(slot) ==
  CASE slot = "HEADER" -> {"HEADER"}
    [] slot = "TOP_BANNER" -> {"TOP_BANNER", "HEADER"}
    [] slot = "SIDEBAR" -> {"SIDEBAR"}
    [] slot = "INLINE" -> {"INLINE", "INLINE_ARTICLE"}
    [] slot = "FOOTER" -> {"FOOTER"}
    [] slot = "MID_PAGE" -> {"MID_PAGE", "INLINE", "INLINE_ARTICLE"}
    [] slot = "BETWEEN_SECTIONS" -> {"BETWEEN_SECTIONS", "INLINE", "INLINE_ARTICLE"}
    [] slot = "MOBILE" -> {"MOBILE"}
    [] OTHER -> {slot}

\* the where-clause getAds builds; userId = NULL and role = NULL for a public caller
AdsWhere(a, query, userId, role) ==
  LET slotted == query.slot # UNDEF
      public == ~IsAdmin(role) /\ role # "ADVERTISER" /\ userId = NULL
      statusFilter == IF slotted \/ public THEN "ACTIVE" ELSE query.status
  IN /\ (statusFilter # UNDEF => a.status = statusFilter)
     /\ (query.type # UNDEF => a.type = query.type)
     /\ (slotted \/ public => a.startDate <= now /\ a.endDate >= now)
     /\ (slotted =>
           \/ a.position \in slotToPositionMap(query.slot)
           \/ (a.type \in slotToTypeMap(query.slot) /\ a.position = ""))
     /\ (~IsAdmin(role) /\ role = "ADVERTISER" => a.advertiserId = userId)

MatchingIds(query, userId, role) ==
  { i \in AdIds : ads[i] # NoAd /\ AdsWhere(ads[i], query, userId, role) }

RECURSIVE Descending(_)
Descending(S) ==
  IF S = {} THEN <<>>
  ELSE LET m == CHOOSE x \in S : \A y \in S : x >= y
       IN <<m>> \o Descending(S \ {m})

Min(a, b) == IF a <= b THEN a ELSE b

\* skip / take of a list
Page(list, skip, take) ==
  IF skip >= Len(list) THEN <<>>
  ELSE SubSeq(list, skip + 1, Min(Len(list), skip + take))

CeilDiv(a, b) == (a + b - 1) \div b

\* the orders in which findMany (no orderBy) can return the matching rows
Orderings(S) ==
  { f \in [1..Cardinality(S) -> S] : \A i, j \in 1..Cardinality(S) : i # j => f[i] # f[j] }

\* common denominator of the weights 1 / (1 + impressions), doubled so that every
\* weight spans at least two points of the grid random is drawn from
RECURSIVE Denominator(_)
Denominator(matchingAds) ==
  IF matchingAds = <<>> THEN 2
  ELSE (1 + ads[Head(matchingAds)].impressions) * Denominator(Tail(matchingAds))

\* weights[i] = 1 / (1 + ad.impressions), in units of 1 / Denominator
weights(matchingAds) ==
  [i \in 1..Len(matchingAds) |->
     Denominator(matchingAds) \div (1 + ads[matchingAds[i]].impressions)]

RECURSIVE totalWeight(_)
totalWeight(w) == IF w = <<>> THEN 0 ELSE Head(w) + totalWeight(Tail(w))

\* Math.random() * totalWeight; the last point stands for a remainder that the
\* floating-point subtractions leave above zero
Randoms(w) == 0..(totalWeight(w) + 1)

SamplerLoop_FirstOnly(matchingAds, w, i, random) == matchingAds[1]

\* the for loop of the sampler from index i on; selectedAd starts as matchingAds[0]
RECURSIVE SamplerLoop(_, _, _, _)
SamplerLoop(matchingAds, w, i, random) ==
  IF i > Len(matchingAds) THEN matchingAds[1]
  ELSE IF random - w[i] <= 0 THEN matchingAds[i]
  ELSE SamplerLoop(matchingAds, w, i + 1, random - w[i])

\* the ads the sampler can pick from matchingAds
Selectable(matchingAds) ==
  LET w == weights(matchingAds)
  IN { SamplerLoop(matchingAds, w, 1, random) : random \in Randoms(w) }

ListOut(list, total, query) ==
  [kind |-> "list", ads |-> list, total |-> total,
   totalPages |-> CeilDiv(total, query.limit)]

\* getAds: selected is the sampler's pick in the slot-based branch
getAds(query, userId, role, selected) ==
  LET matching == MatchingIds(query, userId, role)
      skip == (query.page - 1) * query.limit
  IN /\ Handled
     /\ adOp' = OpRec("getAds", "ok")
     /\ IF query.slot # UNDEF /\ userId = NULL
          THEN IF matching = {}
                 THEN /\ selected = 0
                      /\ adOut' = [kind |-> "list", ads |-> <<>>, total |-> 0, totalPages |-> 0]
                 ELSE \E matchingAds \in Orderings(matching) :
                        /\ selected \in Selectable(matchingAds)
                        /\ adOut' = IF ads[selected].type \in {"SLIDER", "SLIDER_TOP"}
                                      THEN ListOut(Page(matchingAds, 0, query.limit),
                                                   Len(matchingAds), query)
                                      ELSE ListOut(<<selected>>, 1, query)
          ELSE /\ selected = 0
               /\ adOut' = ListOut(Page(Descending(matching), skip, query.limit),
                                   Cardinality(matching), query)
     /\ UNCHANGED <<ads, nextAdId, now, immediateQueue>>

\* the result of the call is delivered to the caller
Return ==
  /\ adOp.op # "none"
  /\ adOp' = OpRec("none", "ok")
  /\ adOut' = NoOut
  /\ UNCHANGED <<ads, nextAdId, now, immediateQueue, opCount>>
  /\ UNCHANGED nonAdVars

\* the clock of the host advances
Tick ==
  /\ adOp.op = "none"
  /\ now < MaxDate
  /\ now' = now + 1
  /\ UNCHANGED <<ads, nextAdId, adOp, immediateQueue, adOut, opCount>>
  /\ UNCHANGED nonAdVars

AdTypesIn == {"BANNER_TOP"}

CreateInputs ==
  [startDate : Dates, endDate : Dates, position : Positions,
   price : {"none"}, type : AdTypesIn]
  \cup {[startDate |-> 0, endDate |-> MaxDate, position |-> "", price |-> "bad",
         type |-> "BANNER_TOP"]}

\* request bodies of updateAd: dates (with or without an explicit price), or a
\* position, or an invalid price
UpdateInputs ==
  [startDate : Dates \cup {NoDate}, endDate : Dates \cup {NoDate},
   position : {UNDEF}, price : {UNDEF, "ok"}, type : {UNDEF}]
  \cup [startDate : {NoDate}, endDate : {NoDate},
        position : Positions, price : {UNDEF}, type : {UNDEF}]
  \cup {[startDate |-> NoDate, endDate |-> NoDate, position |-> UNDEF, price |-> "bad",
         type |-> UNDEF]}

\* events Stripe can deliver; adId = 0 is metadata without adId
WebhookEvents ==
  [type : {"payment_intent.succeeded", "payment_intent.payment_failed"}, adId : AdIds \cup {0}]

AdCallers == {"adv1", "admin1"}

\* callers and request bodies of the authorization runs
AuthCallers == {"adv1", "adv2", "admin1"}

AuthCreateInputs ==
  {[startDate |-> 0, endDate |-> 1, position |-> "", price |-> "none", type |-> "BANNER_TOP"]}

AuthUpdateInputs ==
  {[startDate |-> NoDate, endDate |-> 2, position |-> UNDEF, price |-> UNDEF, type |-> UNDEF],
   [startDate |-> NoDate, endDate |-> NoDate, position |-> "HEADER", price |-> UNDEF,
    type |-> UNDEF]}

\* callers, request bodies and queries of the serving runs
ServeCallers == {"adv1", "admin1"}

ServeCreateInputs ==
  [startDate : {0, 1}, endDate : {1, 2}, position : {"HEADER"},
   price : {"none"}, type : {"BANNER_TOP", "SLIDER"}]

\* userId of getAds: NULL is the public caller
ListCallers == {NULL, "user1", "adv1", "admin1"}

RoleOfCaller(u) == IF u = NULL THEN NULL ELSE RoleOf(u)

Queries ==
  [status : {UNDEF, "PENDING"}, type : {UNDEF}, slot : {UNDEF, "HEADER"},
   page : {1}, limit : {1, 10}]

InitAds ==
  /\ ads = [i \in AdIds |-> NoAd]
  /\ nextAdId = 1
  /\ now = 0
  /\ adOp = OpRec("none", "ok")
  /\ adOut = NoOut
  /\ opCount = 0
  /\ immediateQueue = <<>>

IdleVideo ==
  /\ media = <<>>
  /\ pv = [pc |-> "idle"]
  /\ batch = [state |-> "idle"]

IdleMemo ==
  /\ memos = <<>>
  /\ nextMemoId = 1
  /\ memoOp = OpRec("none", "ok")
  /\ memoReq = [stage |-> "idle"]

IdleHttp == http = [stage |-> "idle"]

IdleErr == errIn = [kind |-> "none"] /\ errOut = 0

\* no createAd call is between its conflict check and its insert, and no
\* trackImpression or trackClick call is in progress
IdleCreate ==
  /\ creating = [r \in {1, 2} |-> [pc |-> "idle"]]
  /\ tracking = [r \in {1, 2} |-> [pc |-> "idle"]]

\* no user table is populated and no deleteUser call is in progress
IdleUser ==
  /\ db = [user |-> {}, news |-> {}, chat |-> {}, transaction |-> {}, report |-> {},
           auditLog |-> {}, bookmark |-> {}, memo |-> {}]
  /\ del = [pc |-> "idle"]

NextAds ==
  \/ \E d \in CreateInputs, u \in AdCallers : createAd(d, u, RoleOf(u))
  \/ \E i \in AdIds, d \in UpdateInputs, u \in AdCallers : updateAd(i, d, u, RoleOf(u))
  \/ \E i \in AdIds : approveAd(i)
  \/ \E i \in AdIds : rejectAd(i, "reason")
  \/ \E i \in AdIds, u \in AdCallers : deleteAd(i, u, RoleOf(u))
  \/ \E i \in AdIds, u \in AdCallers : pauseAd(i, u, RoleOf(u))
  \/ \E i \in AdIds, u \in AdCallers : resumeAd(i, u, RoleOf(u))
  \/ \E e \in WebhookEvents : handleStripeWebhook(e)
  \/ Return
  \/ Tick

NextAuth ==
  \/ \E d \in AuthCreateInputs, u \in AuthCallers : createAd(d, u, RoleOf(u))
  \/ \E i \in AdIds, d \in AuthUpdateInputs, u \in AuthCallers : updateAd(i, d, u, RoleOf(u))
  \/ \E i \in AdIds, u \in AuthCallers, ok \in BOOLEAN : createPaymentIntent(i, u, ok)
  \/ \E i \in AdIds, u \in AuthCallers : deleteAd(i, u, RoleOf(u))
  \/ \E i \in AdIds, u \in AuthCallers : pauseAd(i, u, RoleOf(u))
  \/ \E i \in AdIds, u \in AuthCallers : resumeAd(i, u, RoleOf(u))
  \/ \E i \in AdIds, u \in AuthCallers : getAdAnalytics(i, u, RoleOf(u))
  \/ \E e \in WebhookEvents : handleStripeWebhook(e)
  \/ Return

NextServe ==
  \/ \E d \in ServeCreateInputs, u \in ServeCallers : createAd(d, u, RoleOf(u))
  \/ \E i \in AdIds : trackImpression(i)
  \/ \E i \in AdIds : trackClick(i)
  \/ \E ok \in BOOLEAN : RunImmediate(ok)
  \/ \E q \in Queries, u \in ListCallers, sel \in AdIds \cup {0} :
       getAds(q, u, RoleOfCaller(u), sel)
  \/ Return
  \/ Tick

Init == InitAds /\ IdleVideo /\ IdleMemo /\ IdleHttp /\ IdleErr /\ IdleCreate /\ IdleUser

Next == NextAds

Spec == Init /\ [][Next]_vars

SpecAuth == Init /\ [][NextAuth]_vars

SpecServe == Init /\ [][NextServe]_vars

\* ------------------------------------------------------------ properties

\* the ranges [a.startDate, a.endDate] and [startDate, endDate] share an instant
SharesInstant(a, startDate, endDate) ==
  \E t \in Dates : a.startDate <= t /\ t <= a.endDate /\ startDate <= t /\ t <= endDate

\* existing ads that book the position over an instant of the requested range
Blockers(position, startDate, endDate) ==
  { i \in AdIds : /\ ads[i] # NoAd
                  /\ ads[i].position = position
                  /\ ads[i].status \in {"ACTIVE", "PENDING"}
                  /\ SharesInstant(ads[i], startDate, endDate) }

\* the request reaches createAd's conflict check
PassesDateValidation(d) ==
  /\ d.startDate >= StartOfDay(now)
  /\ d.endDate > d.startDate
  /\ DurationDays(d.startDate, d.endDate) >= MIN_AD_DURATION_DAYS
  /\ DurationDays(d.startDate, d.endDate) <= MAX_AD_DURATION_DAYS

\* C1: a createAd with a non-empty position that reaches the conflict check is
\* rejected as already booked, creating no ad, whenever an ACTIVE or PENDING ad of
\* the same position has a range sharing an instant with the requested range, and
\* the conflict check does not reject it when there is no such ad (so PAUSED and
\* REJECTED ads never cause a conflict).
C1_BookedIffOverlap ==
  [][\A d \in CreateInputs, u \in AdCallers :
       (createAd(d, u, RoleOf(u)) /\ d.position # "" /\ PassesDateValidation(d)) =>
         IF Blockers(d.position, d.startDate, d.endDate) # {}
           THEN adOp'.err = "BOOKED" /\ ads' = ads
           ELSE adOp'.err # "BOOKED"]_vars

\* C2: no two distinct ACTIVE or PENDING ads of the same non-empty position have
\* overlapping date ranges.
C2_NoDoubleBooking ==
  \A i, j \in AdIds :
    (/\ i # j
     /\ ads[i] # NoAd /\ ads[j] # NoAd
     /\ ads[i].status \in {"ACTIVE", "PENDING"}
     /\ ads[j].status \in {"ACTIVE", "PENDING"}
     /\ ads[i].position # ""
     /\ ads[i].position = ads[j].position)
    => ~SharesInstant(ads[i], ads[j].startDate, ads[j].endDate)

\* the number of queued GA4 callbacks of a kind for an ad
Queued(kind, adId) ==
  Cardinality({ k \in 1..Len(immediateQueue) :
                  immediateQueue[k] = [kind |-> kind, adId |-> adId] })

\* every queued GA4 callback belongs to an increment already written
QueuedAfterIncrement ==
  \A i \in AdIds :
    /\ Queued("trackImpression", i) > 0 => (ads[i] # NoAd /\ ads[i].impressions >= Queued("trackImpression", i))
    /\ Queued("trackClick", i) > 0 => (ads[i] # NoAd /\ ads[i].clicks >= Queued("trackClick", i))

TrackEffect(i, kind, field, other) ==
  IF Exists(i)
    THEN /\ ads'[i][field] = ads[i][field] + 1
         /\ ads'[i][other] = ads[i][other]
         /\ ads'[i].status = ads[i].status
         /\ \A j \in AdIds \ {i} : ads'[j] = ads[j]
         /\ adOp'.err = "ok"
         /\ immediateQueue' = Append(immediateQueue, [kind |-> kind, adId |-> i])
    ELSE /\ ads' = ads
         /\ adOp'.err # "ok"
         /\ immediateQueue' = immediateQueue

\* C5: trackImpression (trackClick) adds exactly 1 to impressions (clicks), leaves
\* the other counter and the status alone and only then queues the analytics
\* callback; a failed database update queues nothing; the callback runs after the
\* call has completed and, whether the analytics call succeeds or fails, changes
\* neither the counters nor the outcome of the call.
C5_TrackThenDispatch ==
  [][/\ \A i \in AdIds :
          /\ trackImpression(i) => TrackEffect(i, "trackImpression", "impressions", "clicks")
          /\ trackClick(i) => TrackEffect(i, "trackClick", "clicks", "impressions")
     /\ \A ok \in BOOLEAN :
          RunImmediate(ok) => (adOp.op = "none" /\ ads' = ads /\ adOp' = adOp)
     /\ QueuedAfterIncrement']_vars

\* C5 witness: a click was counted and its analytics callback has run
C5_Witness ==
  /\ adOp.op = "none"
  /\ immediateQueue = <<>>
  /\ \E i \in AdIds : ads[i] # NoAd /\ ads[i].clicks = 1 /\ ads[i].impressions = 1

\* the where-clause that the query alone asks for (status, type, slot)
QueryOnly(a, q) ==
  /\ (q.slot = UNDEF /\ q.status # UNDEF => a.status = q.status)
  /\ (q.type # UNDEF => a.type = q.type)
  /\ (q.slot # UNDEF =>
        /\ a.status = "ACTIVE" /\ a.startDate <= now /\ a.endDate >= now
        /\ \/ a.position \in slotToPositionMap(q.slot)
           \/ (a.type \in slotToTypeMap(q.slot) /\ a.position = ""))

Returned(out) == { out.ads[k] : k \in 1..Len(out.ads) }

\* C8: getAds puts no ownership or status restriction on ADMIN and SUPER_ADMIN,
\* restricts an ADVERTISER to the ads it owns, and restricts every other caller to
\* ACTIVE ads with startDate <= now <= endDate.
C8_RoleRestriction ==
  [][\A q \in Queries, u \in ListCallers, sel \in AdIds \cup {0} :
       getAds(q, u, RoleOfCaller(u), sel) =>
         LET role == RoleOfCaller(u)
             asked == { i \in AdIds : ads[i] # NoAd /\ QueryOnly(ads[i], q) }
         IN IF role \in {"ADMIN", "SUPER_ADMIN"}
              THEN adOut'.total = Cardinality(asked)
            ELSE IF role = "ADVERTISER"
              THEN /\ \A i \in Returned(adOut') : ads[i].advertiserId = u
                   /\ adOut'.total = Cardinality({ i \in asked : ads[i].advertiserId = u })
            ELSE \A i \in Returned(adOut') :
                   /\ ads[i].status = "ACTIVE"
                   /\ ads[i].startDate <= now /\ now <= ads[i].endDate]_vars

\* C9: an ADVERTISER calling updateAd, deleteAd, pauseAd, resumeAd or
\* getAdAnalytics on an ad of another advertiser gets Unauthorized and the ad is
\* unchanged; createPaymentIntent gives Unauthorized to every caller that is not
\* the ad's advertiser and 'Ad is already paid' to the advertiser of a paid ad,
\* without changing the ad.
C9_OwnershipChecks ==
  [][\A i \in AdIds, u \in AuthCallers :
       LET role == RoleOf(u)
           foreign == Exists(i) /\ role = "ADVERTISER" /\ ads[i].advertiserId # u
           denied == adOp'.err = "UNAUTHORIZED" /\ ads' = ads
       IN /\ \A d \in AuthUpdateInputs : (updateAd(i, d, u, role) /\ foreign) => denied
          /\ (deleteAd(i, u, role) /\ foreign) => denied
          /\ (pauseAd(i, u, role) /\ foreign) => denied
          /\ (resumeAd(i, u, role) /\ foreign) => denied
          /\ (getAdAnalytics(i, u, role) /\ foreign) => denied
          /\ \A ok \in BOOLEAN :
               (createPaymentIntent(i, u, ok) /\ Exists(i)) =>
                 /\ ads' = ads
                 /\ ads[i].advertiserId # u => adOp'.err = "UNAUTHORIZED"
                 /\ (ads[i].advertiserId = u /\ ads[i].isPaid) => adOp'.err = "ALREADY_PAID"]_vars

\* C9 witness: an advertiser was refused on a paused ad of somebody else, and a
\* paid ad's owner was refused a second payment
C9_Witness ==
  \/ /\ adOp = OpRec("resumeAd", "UNAUTHORIZED")
     /\ \E i \in AdIds : ads[i] # NoAd /\ ads[i].status = "PAUSED"
  \/ adOp = OpRec("createPaymentIntent", "ALREADY_PAID")

\* ------------------------------------------------------------ VideoProcessingService
MaxBatch == 3

NoMedia == [type |-> "NONE"]

MediaIds == {"v1", "v2"}

\* a media row with its uploader's role (NULL: no uploader)
MediaRow(type, uploaderRole) ==
  [type |-> type, uploaderRole |-> uploaderRole, processingStatus |-> "PENDING",
   thumbnailUrl |-> NULL, duration |-> NULL]

MediaRows ==
  {NoMedia, MediaRow("IMAGE", "USER")}
  \cup { MediaRow("VIDEO", r) : r \in {"ADMIN", "SUPER_ADMIN", "USER", NULL} }

pvIdle == [pc |-> "idle"]

videoIdle == batch = [state |-> "idle"] /\ pv = pvIdle

otherThanVideo == <<adVars, memoVars, http, errVars, creating, tracking, userVars>>

\* media.uploader?.role === "ADMIN" || media.uploader?.role === "SUPER_ADMIN"
canAutoApprove(m) == m.uploaderRole = "ADMIN" \/ m.uploaderRole = "SUPER_ADMIN"

FinalStatus_AlwaysCompleted(auto) == "COMPLETED"

\* canAutoApprove ? COMPLETED : PENDING
FinalStatus(auto) == IF auto THEN "COMPLETED" ELSE "PENDING"

pvFrame(mediaId, caller, pc, err) ==
  [pc |-> pc, mediaId |-> mediaId, caller |-> caller, err |-> err,
   canAutoApprove |-> canAutoApprove(media[mediaId]), thumbnailUrl |-> UNDEF]

\* processVideo from its entry to the write of PROCESSING
pvEnter(mediaId, caller) ==
  IF media[mediaId] = NoMedia
    THEN /\ pv' = [pc |-> "thrown", mediaId |-> mediaId, caller |-> caller,
                   err |-> "MEDIA_NOT_FOUND"]
         /\ media' = media
  ELSE IF media[mediaId].type # "VIDEO"
    THEN /\ pv' = [pc |-> "thrown", mediaId |-> mediaId, caller |-> caller,
                   err |-> "NOT_A_VIDEO"]
         /\ media' = media
  ELSE /\ pv' = pvFrame(mediaId, caller, "fileCheck", "none")
       /\ media' = [media EXCEPT ![mediaId].processingStatus = "PROCESSING"]

\* a direct call of processVideo
processVideo(mediaId) ==
  /\ videoIdle
  /\ pvEnter(mediaId, "direct")
  /\ UNCHANGED <<batch, otherThanVideo>>

\* fs.existsSync(videoPath)
pvFileCheck(exists) ==
  /\ pv.pc = "fileCheck"
  /\ pv' = IF exists THEN [pv EXCEPT !.pc = "extract"]
           ELSE [pv EXCEPT !.pc = "catch", !.err = "FILE_NOT_FOUND"]
  /\ UNCHANGED <<media, batch, otherThanVideo>>

\* await extractVideoMetadata(videoPath)
pvExtract(ok) ==
  /\ pv.pc = "extract"
  /\ pv' = IF ok THEN [pv EXCEPT !.pc = "thumbnail"]
           ELSE [pv EXCEPT !.pc = "catch", !.err = "EXTRACT_FAILED"]
  /\ UNCHANGED <<media, batch, otherThanVideo>>

pvThumbnail_FailureThrows(ok) ==
  /\ pv.pc = "thumbnail"
  /\ pv' = IF ok THEN [pv EXCEPT !.pc = "save", !.thumbnailUrl = "thumb"]
           ELSE [pv EXCEPT !.pc = "catch", !.err = "THUMBNAIL_FAILED"]
  /\ UNCHANGED <<media, batch, otherThanVideo>>

\* the inner try/catch around generateThumbnailForVideo
pvThumbnail(ok) ==
  /\ pv.pc = "thumbnail"
  /\ pv' = [pv EXCEPT !.pc = "save", !.thumbnailUrl = IF ok THEN "thumb" ELSE UNDEF]
  /\ UNCHANGED <<media, batch, otherThanVideo>>

\* the final update; an undefined thumbnailUrl is not written
pvSave ==
  /\ pv.pc = "save"
  /\ media' = [media EXCEPT
       ![pv.mediaId].processingStatus = FinalStatus(pv.canAutoApprove),
       ![pv.mediaId].duration = "meta",
       ![pv.mediaId].thumbnailUrl =
          IF pv.thumbnailUrl = UNDEF THEN @ ELSE pv.thumbnailUrl]
  /\ pv' = [pv EXCEPT !.pc = "returned"]
  /\ UNCHANGED <<batch, otherThanVideo>>

\* the outer catch: write FAILED, rethrow
pvCatch ==
  /\ pv.pc = "catch"
  /\ media' = [media EXCEPT ![pv.mediaId].processingStatus = "FAILED"]
  /\ pv' = [pv EXCEPT !.pc = "thrown"]
  /\ UNCHANGED <<batch, otherThanVideo>>

\* the direct caller receives the result or the error
pvSettle ==
  /\ pv.pc \in {"returned", "thrown"}
  /\ pv.caller = "direct"
  /\ pv' = pvIdle
  /\ UNCHANGED <<media, batch, otherThanVideo>>

\* the lists of at most n media ids
RECURSIVE IdLists(_)
IdLists(n) ==
  IF n = 0 THEN {<<>>}
  ELSE LET shorter == IdLists(n - 1)
       IN shorter \cup { Append(s, m) : s \in shorter, m \in MediaIds }

\* processVideos: let success = 0; let failed = 0
processVideos(mediaIds) ==
  /\ videoIdle
  /\ batch' = [state |-> "running", mediaIds |-> mediaIds, k |-> 1,
               success |-> 0, failed |-> 0, called |-> <<>>, returned |-> 0]
  /\ UNCHANGED <<media, pv, otherThanVideo>>

\* the loop body calls this.processVideo(mediaId)
batchCall ==
  /\ batch.state = "running"
  /\ pv = pvIdle
  /\ batch.k <= Len(batch.mediaIds)
  /\ pvEnter(batch.mediaIds[batch.k], "batch")
  /\ batch' = [batch EXCEPT !.called = Append(@, batch.mediaIds[batch.k])]
  /\ UNCHANGED otherThanVideo

Counted_StopAtFailure(b, outcome) ==
  IF outcome = "returned" THEN [b EXCEPT !.success = @ + 1, !.k = @ + 1]
  ELSE [b EXCEPT !.failed = @ + 1, !.k = Len(b.mediaIds) + 1]

\* try { await processVideo; success++ } catch { failed++ }, then the next id
Counted(b, outcome) ==
  IF outcome = "returned" THEN [b EXCEPT !.success = @ + 1, !.k = @ + 1]
  ELSE [b EXCEPT !.failed = @ + 1, !.k = @ + 1]

batchNext ==
  /\ batch.state = "running"
  /\ pv.pc \in {"returned", "thrown"}
  /\ pv.caller = "batch"
  /\ batch' = [Counted(batch, pv.pc) EXCEPT
                 !.returned = IF pv.pc = "returned" THEN @ + 1 ELSE @]
  /\ pv' = pvIdle
  /\ UNCHANGED <<media, otherThanVideo>>

\* return { success, failed }
batchReturn ==
  /\ batch.state = "running"
  /\ pv = pvIdle
  /\ batch.k > Len(batch.mediaIds)
  /\ batch' = [batch EXCEPT !.state = "done"]
  /\ UNCHANGED <<media, pv, otherThanVideo>>

InitVideo ==
  /\ media \in [MediaIds -> MediaRows]
  /\ pv = pvIdle
  /\ batch = [state |-> "idle"]
  /\ InitAds /\ IdleMemo /\ IdleHttp /\ IdleErr /\ IdleCreate /\ IdleUser

NextVideo ==
  \/ \E m \in MediaIds : processVideo(m)
  \/ \E exists \in BOOLEAN : pvFileCheck(exists)
  \/ \E ok \in BOOLEAN : pvExtract(ok)
  \/ \E ok \in BOOLEAN : pvThumbnail(ok)
  \/ pvSave
  \/ pvCatch
  \/ pvSettle
  \/ \E l \in IdLists(MaxBatch) : processVideos(l)
  \/ batchCall
  \/ batchNext
  \/ batchReturn

SpecVideo == InitVideo /\ [][NextVideo]_vars

\* ------------------------------------------------------------ properties of processVideo

inTry == pv.pc \in {"fileCheck", "extract", "thumbnail", "save", "catch"}

\* C3: processVideo on an existing VIDEO row has written PROCESSING before the
\* file check, the metadata extraction and the thumbnail generation; when it has
\* returned the row is COMPLETED for an ADMIN or SUPER_ADMIN uploader and PENDING
\* for any other, when it has thrown the row is FAILED and the error is the
\* missing file or the failed extraction; no row is PROCESSING once the call is
\* over.
C3_StatusTransitions ==
  /\ inTry => /\ media[pv.mediaId].type = "VIDEO"
              /\ media[pv.mediaId].processingStatus = "PROCESSING"
  /\ pv.pc = "returned" =>
       /\ pv.err = "none"
       /\ media[pv.mediaId].processingStatus =
            (IF media[pv.mediaId].uploaderRole \in {"ADMIN", "SUPER_ADMIN"}
               THEN "COMPLETED" ELSE "PENDING")
  /\ (pv.pc = "thrown" /\ media[pv.mediaId] # NoMedia /\ media[pv.mediaId].type = "VIDEO") =>
       /\ pv.err \in {"FILE_NOT_FOUND", "EXTRACT_FAILED"}
       /\ media[pv.mediaId].processingStatus = "FAILED"
  /\ ~inTry => \A m \in MediaIds :
                 media[m] # NoMedia => media[m].processingStatus # "PROCESSING"

\* C3 witness: a call on a video of a non-admin uploader failed and the next call
\* on that video returned
C3_Witness ==
  /\ pv.pc = "returned"
  /\ batch.state = "running"
  /\ batch.failed = 1
  /\ batch.mediaIds = <<"v1", "v1">>
  /\ media["v1"].processingStatus = "PENDING"
  /\ media["v1"].duration = "meta"

\* the calls of a finished or running batch were made in list order
CalledInOrder ==
  batch.called = SubSeq(batch.mediaIds, 1, Len(batch.called))

\* C4: processVideos calls processVideo for the ids one at a time in list order, a
\* failed id does not stop the later ones, an error of processVideo never leaves
\* processVideos, and the result has success + failed = number of ids with success
\* the number of calls that returned.
C4_BatchCounts ==
  /\ batch.state \in {"running", "done"} =>
       /\ CalledInOrder
       /\ Len(batch.called) \in {batch.k - 1, batch.k}
       /\ batch.k <= Len(batch.mediaIds) + 1
       /\ (pv # pvIdle => pv.caller = "batch" /\ Len(batch.called) = batch.k)
  /\ batch.state = "done" =>
       /\ batch.called = batch.mediaIds
       /\ batch.success + batch.failed = Len(batch.mediaIds)
       /\ batch.success = batch.returned

\* C4 witness: a batch of three ids finished with a failure before a success
C4_Witness ==
  /\ batch.state = "done"
  /\ Len(batch.mediaIds) = MaxBatch
  /\ batch.failed >= 1
  /\ batch.success >= 1
  /\ media[batch.mediaIds[1]] = NoMedia

\* ------------------------------------------------------------ errorHandler
\* strings are sequences of characters
\* 'invalid credentials', 'invalid password', 'authentication failed',
\* 'unauthorized', 'not authenticated', 'account is disabled'
authPhrases ==
  {<<"i", "n", "v", "a", "l", "i", "d", " ", "c", "r", "e", "d", "e", "n", "t", "i", "a", "l", "s">>,
   <<"i", "n", "v", "a", "l", "i", "d", " ", "p", "a", "s", "s", "w", "o", "r", "d">>,
   <<"a", "u", "t", "h", "e", "n", "t", "i", "c", "a", "t", "i", "o", "n", " ", "f", "a", "i", "l", "e", "d">>,
   <<"u", "n", "a", "u", "t", "h", "o", "r", "i", "z", "e", "d">>,
   <<"n", "o", "t", " ", "a", "u", "t", "h", "e", "n", "t", "i", "c", "a", "t", "e", "d">>,
   <<"a", "c", "c", "o", "u", "n", "t", " ", "i", "s", " ", "d", "i", "s", "a", "b", "l", "e", "d">>}

\* 'not found', 'does not exist', 'not exist'
notFoundPhrases ==
  {<<"n", "o", "t", " ", "f", "o", "u", "n", "d">>,
   <<"d", "o", "e", "s", " ", "n", "o", "t", " ", "e", "x", "i", "s", "t">>,
   <<"n", "o", "t", " ", "e", "x", "i", "s", "t">>}

\* messages of errors that reach the handler
msgUnauthorized == <<"U", "n", "a", "u", "t", "h", "o", "r", "i", "z", "e", "d">>

msgAdNotFound == <<"A", "d", " ", "n", "o", "t", " ", "f", "o", "u", "n", "d">>

msgUnauthorizedNotFound == <<"U", "n", "a", "u", "t", "h", "o", "r", "i", "z", "e", "d", ":", " ", "a", "d", " ", "n", "o", "t", " ", "f", "o", "u", "n", "d">>

msgEmpty == <<>>

\* the messages above and 'UNAUTHORIZED', 'Invalid credentials', 'Invalid password',
\* 'Authentication failed', 'Not authenticated', 'Account is disabled',
\* 'User does not exist', 'File not exist', 'Ad is already paid', 'jwt expired'
Messages ==
  {msgUnauthorized, msgAdNotFound, msgUnauthorizedNotFound, msgEmpty,
   <<"U", "N", "A", "U", "T", "H", "O", "R", "I", "Z", "E", "D">>,
   <<"I", "n", "v", "a", "l", "i", "d", " ", "c", "r", "e", "d", "e", "n", "t", "i", "a", "l", "s">>,
   <<"I", "n", "v", "a", "l", "i", "d", " ", "p", "a", "s", "s", "w", "o", "r", "d">>,
   <<"A", "u", "t", "h", "e", "n", "t", "i", "c", "a", "t", "i", "o", "n", " ", "f", "a", "i", "l", "e", "d">>,
   <<"N", "o", "t", " ", "a", "u", "t", "h", "e", "n", "t", "i", "c", "a", "t", "e", "d">>,
   <<"A", "c", "c", "o", "u", "n", "t", " ", "i", "s", " ", "d", "i", "s", "a", "b", "l", "e", "d">>,
   <<"U", "s", "e", "r", " ", "d", "o", "e", "s", " ", "n", "o", "t", " ", "e", "x", "i", "s", "t">>,
   <<"F", "i", "l", "e", " ", "n", "o", "t", " ", "e", "x", "i", "s", "t">>,
   <<"A", "d", " ", "i", "s", " ", "a", "l", "r", "e", "a", "d", "y", " ", "p", "a", "i", "d">>,
   <<"j", "w", "t", " ", "e", "x", "p", "i", "r", "e", "d">>}

\* an error whose message is undefined
NoMessage == <<"undefined">>

UpperCase == <<"A", "B", "C", "D", "E", "F", "G", "H", "I", "J", "K", "L", "M", "N", "O", "P", "Q", "R", "S", "T", "U", "V", "W", "X", "Y", "Z">>

LowerCase == <<"a", "b", "c", "d", "e", "f", "g", "h", "i", "j", "k", "l", "m", "n", "o", "p", "q", "r", "s", "t", "u", "v", "w", "x", "y", "z">>

LowerChar(c) ==
  IF \E k \in 1..Len(UpperCase) : UpperCase[k] = c
    THEN LowerCase[CHOOSE k \in 1..Len(UpperCase) : UpperCase[k] = c]
    ELSE c

toLowerCase_Identity(s) == s

\* String.prototype.toLowerCase
toLowerCase(s) == [k \in 1..Len(s) |-> LowerChar(s[k])]

\* String.prototype.includes
includes(s, sub) ==
  \E k \in 0..(Len(s) - Len(sub)) : SubSeq(s, k + 1, k + Len(sub)) = sub

\* err.message?.toLowerCase() || ""
lowerMessage(err) == IF err.message = NoMessage THEN <<>> ELSE toLowerCase(err.message)

\* the status errorHandler answers with; statusCode 0 is an error without one
errorStatus(err) ==
  IF err.kind = "ZodError" THEN 422
  ELSE IF err.kind = "PrismaClientKnownRequestError"
    THEN IF err.code = "P2002" THEN 409
         ELSE IF err.code = "P2025" THEN 404
         ELSE 500
  ELSE IF err.name = "JsonWebTokenError" \/ err.name = "TokenExpiredError" THEN 401
  ELSE IF \E p \in authPhrases : includes(lowerMessage(err), p) THEN 401
  ELSE IF \E p \in notFoundPhrases : includes(lowerMessage(err), p) THEN 404
  ELSE IF err.statusCode # 0 THEN err.statusCode ELSE 500

\* throw new Error(message)
serviceError(message) ==
  [kind |-> "Error", code |-> NULL, name |-> "Error", message |-> message, statusCode |-> 0]

\* errors thrown by validators, Prisma, jsonwebtoken and the services
Errors ==
  [kind : {"ZodError"}, code : {NULL}, name : {"ZodError"}, message : Messages,
   statusCode : {0}]
  \cup [kind : {"PrismaClientKnownRequestError"}, code : {"P2002", "P2025", "P2003"},
        name : {"PrismaClientKnownRequestError"}, message : Messages, statusCode : {0}]
  \cup [kind : {"Error"}, code : {NULL},
        name : {"Error", "JsonWebTokenError", "TokenExpiredError"},
        message : Messages \cup {NoMessage}, statusCode : {0, 400, 429}]

\* errorHandler(err, req, res, next) answers with the status
errorHandler ==
  /\ errOut = 0
  /\ errIn \in Errors
  /\ errOut' = errorStatus(errIn)
  /\ UNCHANGED <<errIn, adVars, videoVars, memoVars, http, creating, tracking, userVars>>

InitErr ==
  /\ errIn \in Errors
  /\ errOut = 0
  /\ InitAds /\ IdleVideo /\ IdleMemo /\ IdleHttp /\ IdleCreate /\ IdleUser

SpecErr == InitErr /\ [][errorHandler]_vars

\* ------------------------------------------------------------ properties of errorHandler

SameLetter(c, d) ==
  \/ c = d
  \/ \E k \in 1..Len(UpperCase) : {c, d} = {UpperCase[k], LowerCase[k]}

\* the message has the phrase somewhere, in any mix of cases
ContainsCI(message, phrase) ==
  /\ message # NoMessage
  /\ \E k \in 0..(Len(message) - Len(phrase)) :
       \A j \in 1..Len(phrase) : SameLetter(message[k + j], phrase[j])

\* the authentication and authorization phrases of the claim
ClaimedAuthPhrases ==
  {<<"u", "n", "a", "u", "t", "h", "o", "r", "i", "z", "e", "d">>,
   <<"i", "n", "v", "a", "l", "i", "d", " ", "c", "r", "e", "d", "e", "n", "t", "i", "a", "l", "s">>,
   <<"i", "n", "v", "a", "l", "i", "d", " ", "p", "a", "s", "s", "w", "o", "r", "d">>,
   <<"a", "u", "t", "h", "e", "n", "t", "i", "c", "a", "t", "i", "o", "n", " ", "f", "a", "i", "l", "e", "d">>,
   <<"n", "o", "t", " ", "a", "u", "t", "h", "e", "n", "t", "i", "c", "a", "t", "e", "d">>,
   <<"a", "c", "c", "o", "u", "n", "t", " ", "i", "s", " ", "d", "i", "s", "a", "b", "l", "e", "d">>}

\* the not-found phrases of the claim
ClaimedNotFoundPhrases ==
  {<<"n", "o", "t", " ", "f", "o", "u", "n", "d">>,
   <<"d", "o", "e", "s", " ", "n", "o", "t", " ", "e", "x", "i", "s", "t">>,
   <<"n", "o", "t", " ", "e", "x", "i", "s", "t">>}

\* the rules of the claim in their order of precedence
Rules(e) ==
  << [applies |-> e.kind = "ZodError", status |-> 422],
     [applies |-> e.kind = "PrismaClientKnownRequestError" /\ e.code = "P2002", status |-> 409],
     [applies |-> e.kind = "PrismaClientKnownRequestError" /\ e.code = "P2025", status |-> 404],
     [applies |-> e.kind = "PrismaClientKnownRequestError", status |-> 500],
     [applies |-> e.name \in {"JsonWebTokenError", "TokenExpiredError"}, status |-> 401],
     [applies |-> \E p \in ClaimedAuthPhrases : ContainsCI(e.message, p), status |-> 401],
     [applies |-> \E p \in ClaimedNotFoundPhrases : ContainsCI(e.message, p), status |-> 404],
     [applies |-> e.statusCode # 0, status |-> e.statusCode],
     [applies |-> TRUE, status |-> 500] >>

FirstRule(e) ==
  CHOOSE k \in 1..Len(Rules(e)) :
    Rules(e)[k].applies /\ \A j \in 1..(k - 1) : ~Rules(e)[j].applies

\* C6: errorHandler answers every error with the status of the first rule that
\* applies: ZodError 422; Prisma P2002 409, P2025 404, other codes 500; JWT errors
\* 401; a message with an authentication phrase (any case) 401; a message with
\* 'not found', 'does not exist' or 'not exist' 404; else the error's statusCode
\* if set, else 500. 'Unauthorized' gives 401 and 'Ad not found' gives 404.
C6_StatusPrecedence ==
  errOut # 0 =>
    /\ errOut = Rules(errIn)[FirstRule(errIn)].status
    /\ (errIn.kind = "Error" /\ errIn.name = "Error" /\ errIn.message = msgUnauthorized)
         => errOut = 401
    /\ (errIn.kind = "Error" /\ errIn.name = "Error" /\ errIn.message = msgAdNotFound)
         => errOut = 404

\* C6 witness: a service error with both an authorization and a not-found phrase
\* and its own statusCode was answered with 401
C6_Witness ==
  /\ errOut = 401
  /\ errIn.kind = "Error" /\ errIn.name = "Error"
  /\ errIn.message = msgUnauthorizedNotFound
  /\ errIn.statusCode = 429

\* ------------------------------------------------------------ createApp
NoErr == [kind |-> "none"]

ApiPaths == {"/api/v1/ads"}

UploadPaths == {"/uploads/a.png", "/uploads/test"}

Paths == {"/", "/api-docs", "/missing"} \cup ApiPaths \cup UploadPaths

\* origin is the Origin header, NULL when the request has none
Requests ==
  [method : {"GET", "POST", "OPTIONS"}, origin : {NULL, "https://site.example"}, path : Paths]

\* the middleware stack in the order createApp registers it
Layers ==
  << "cors", "corsHeaders", "permissiveHeaders", "compression", "options", "swagger",
     "limiter", "bodyParser", "logging", "audit", "uploadsCors", "uploadsHeaders",
     "static", "uploadsTest", "routes", "root", "notFound", "errorHandler" >>

\* what a layer can find: a route answers, throws or does not match; the limiter
\* lets through or rejects; the body parses or not; the file exists or not
Choices == {"ok", "fail", "pass"}

NewResponse ==
  [status |-> 0, acao |-> NULL, acac |-> NULL, acacByApp |-> FALSE, by |-> "none",
   routesReached |-> FALSE]

\* if (origin) { Allow-Origin: origin; Allow-Credentials: true } else { Allow-Origin: * }
setCorsHeaders(res, origin) ==
  IF origin # NULL
    THEN [res EXCEPT !.acao = origin, !.acac = "true", !.acacByApp = TRUE]
    ELSE [res EXCEPT !.acao = "*"]

\* the headers the cors package applies when the origin option resolves to true:
\* the request's Origin is reflected (no header without one), credentials: true
corsPackageHeaders(res, origin) ==
  [res EXCEPT !.acao = IF origin # NULL THEN origin ELSE @, !.acac = "true"]

\* the layer is mounted on the request's path and method
Mounted(l, req) ==
  CASE l = "options" -> req.method = "OPTIONS"
    [] l = "swagger" -> req.path = "/api-docs"
    [] l \in {"limiter", "routes"} -> req.path \in ApiPaths
    [] l \in {"uploadsCors", "uploadsHeaders", "static"} -> req.path \in UploadPaths
    [] l = "uploadsTest" -> req.method = "GET" /\ req.path = "/uploads/test"
    [] l = "root" -> req.method = "GET" /\ req.path = "/"
    [] OTHER -> TRUE

\* Express runs error handlers after next(err), and the other layers otherwise
Applies(l, h) ==
  IF h.err # NoErr THEN l = "errorHandler"
  ELSE l # "errorHandler" /\ Mounted(l, h.req)

Pass(h) == [h EXCEPT !.layer = @ + 1]

Fail(h, err) == [h EXCEPT !.layer = @ + 1, !.err = err]

End(h, res, status) ==
  [h EXCEPT !.stage = "sent", !.res = [res EXCEPT !.status = status, !.by = Layers[h.layer]]]

\* the cors package layer: preflightContinue false ends an OPTIONS request
corsLayer(h) ==
  LET res == corsPackageHeaders(h.res, h.req.origin)
  IN IF h.req.method = "OPTIONS" THEN End(h, res, 204)
     ELSE Pass([h EXCEPT !.res = res])

\* what the layer does with the request it applies to
Handle(l, h, choice) ==
  LET origin == h.req.origin
      withCors == setCorsHeaders(h.res, origin)
  IN CASE l \in {"cors", "uploadsCors"} -> corsLayer(h)
       [] l \in {"corsHeaders", "permissiveHeaders", "uploadsHeaders"} ->
            Pass([h EXCEPT !.res = withCors])
       [] l = "options" -> End(h, withCors, 204)
       [] l = "swagger" -> End(h, h.res, 200)
       [] l = "limiter" -> IF choice = "fail" THEN End(h, h.res, 429) ELSE Pass(h)
       [] l = "bodyParser" ->
            IF choice = "fail" /\ h.req.method = "POST"
              THEN Fail(h, [serviceError(msgEmpty) EXCEPT
                              !.name = "SyntaxError", !.statusCode = 400])
              ELSE Pass(h)
       [] l = "static" ->
            IF choice = "ok" /\ h.req.method = "GET" /\ h.req.path = "/uploads/a.png"
              THEN End(h, withCors, 200)
              ELSE Pass(h)
       [] l = "uploadsTest" -> End(h, h.res, 200)
       [] l = "routes" ->
            LET reached == [h EXCEPT !.res.routesReached = TRUE]
            IN IF choice = "ok" THEN End(reached, reached.res, 200)
               ELSE IF choice = "fail" THEN Fail(reached, serviceError(msgUnauthorized))
               ELSE Pass(reached)
       [] l = "root" -> End(h, withCors, 200)
       [] l = "notFound" ->
            IF h.req.path \in UploadPaths THEN End(h, h.res, 404)
            ELSE End(h, withCors, 404)
       [] l = "errorHandler" -> End(h, withCors, errorStatus(h.err))
       [] OTHER -> Pass(h)

\* a request arrives at the application
receive(req) ==
  /\ http.stage \in {"idle", "sent"}
  /\ http' = [stage |-> "run", req |-> req, layer |-> 1, err |-> NoErr, res |-> NewResponse]
  /\ UNCHANGED <<adVars, videoVars, memoVars, errVars, creating, tracking, userVars>>

\* Express hands the request to the next layer of the stack
dispatch(choice) ==
  /\ http.stage = "run"
  /\ http.layer <= Len(Layers)
  /\ http' = IF Applies(Layers[http.layer], http)
               THEN Handle(Layers[http.layer], http, choice)
               ELSE Pass(http)
  /\ UNCHANGED <<adVars, videoVars, memoVars, errVars, creating, tracking, userVars>>

NextApp ==
  \/ \E req \in Requests : receive(req)
  \/ \E choice \in Choices : dispatch(choice)

SpecApp == Init /\ [][NextApp]_vars

\* ------------------------------------------------------------ properties of createApp

\* C7: every response carries Access-Control-Allow-Origin equal to the request's
\* Origin when it has one and '*' otherwise; the application's own middleware sets
\* Access-Control-Allow-Credentials: true only when it reflects the origin; every
\* OPTIONS request is answered with 204 without reaching the API routes.
C7_CorsOnEveryResponse ==
  http.stage = "sent" =>
    /\ http.res.acao = (IF http.req.origin # NULL THEN http.req.origin ELSE "*")
    /\ http.res.acacByApp => (http.req.origin # NULL /\ http.res.acao = http.req.origin)
    /\ http.req.method = "OPTIONS" => (http.res.status = 204 /\ ~http.res.routesReached)

\* ------------------------------------------------------------ MemoService
MaxMemos == 2

NoMemo == [createdById |-> NULL]

NoUser == [role |-> NULL]

MemoIds == 1..MaxMemos

\* the rows of the user table; "ghost" is an id without a row
MemoUsers == {"user1", "admin1", "admin2", "super1"}

MemoRoleOf(u) ==
  CASE u \in {"admin1", "admin2"} -> "ADMIN"
    [] u = "super1" -> "SUPER_ADMIN"
    [] OTHER -> "USER"

\* prisma.user.findUnique
findUser(id) == IF id \in MemoUsers THEN [role |-> MemoRoleOf(id)] ELSE NoUser

otherThanMemo == <<adVars, videoVars, http, errVars, creating, tracking, userVars>>

CreateMemoError(data) ==
  IF findUser(data.userId) = NoUser THEN "USER_NOT_FOUND"
  ELSE IF findUser(data.createdById) = NoUser THEN "CREATOR_NOT_FOUND"
  ELSE "ok"

\* the memo table after createMemo
CreatedMemos(data) ==
  IF CreateMemoError(data) = "ok"
    THEN [memos EXCEPT ![nextMemoId] = [userId |-> data.userId, createdById |-> data.createdById]]
    ELSE memos

DeleteMemoError_AnyAdmin(memoId, adminId) ==
  IF memos[memoId] = NoMemo THEN "MEMO_NOT_FOUND"
  ELSE IF findUser(adminId) = NoUser THEN "ADMIN_NOT_FOUND"
  ELSE IF memos[memoId].createdById # adminId /\ findUser(adminId).role \notin {"ADMIN", "SUPER_ADMIN"}
    THEN "UNAUTHORIZED"
  ELSE "ok"

\* the checks of deleteMemo in their order
DeleteMemoError(memoId, adminId) ==
  IF memos[memoId] = NoMemo THEN "MEMO_NOT_FOUND"
  ELSE IF findUser(adminId) = NoUser THEN "ADMIN_NOT_FOUND"
  ELSE IF memos[memoId].createdById # adminId /\ findUser(adminId).role # "SUPER_ADMIN"
    THEN "UNAUTHORIZED"
  ELSE "ok"

\* the memo table after deleteMemo
DeletedMemos(memoId, adminId) ==
  IF DeleteMemoError(memoId, adminId) = "ok"
    THEN [memos EXCEPT ![memoId] = NoMemo]
    ELSE memos

serviceIdle == memoReq.stage \in {"idle", "sent"}

createMemo(data) ==
  /\ serviceIdle
  /\ nextMemoId <= MaxMemos
  /\ memos' = CreatedMemos(data)
  /\ nextMemoId' = IF CreateMemoError(data) = "ok" THEN nextMemoId + 1 ELSE nextMemoId
  /\ memoOp' = OpRec("createMemo", CreateMemoError(data))
  /\ UNCHANGED <<memoReq, otherThanMemo>>

getMemosByUser(userId) ==
  /\ serviceIdle
  /\ memoOp' = [op |-> "getMemosByUser", err |-> "ok",
                memos |-> { m \in MemoIds : memos[m] # NoMemo /\ memos[m].userId = userId }]
  /\ UNCHANGED <<memos, nextMemoId, memoReq, otherThanMemo>>

deleteMemo(memoId, adminId) ==
  /\ serviceIdle
  /\ memos' = DeletedMemos(memoId, adminId)
  /\ memoOp' = OpRec("deleteMemo", DeleteMemoError(memoId, adminId))
  /\ UNCHANGED <<nextMemoId, memoReq, otherThanMemo>>

\* ------------------------------------------------------------ memo routes
\* the layers of the router in the order memo.routes.ts registers them
memoRouter ==
  << [method |-> "*", path |-> "*", handlers |-> <<"authGuard">>],
     [method |-> "POST", path |-> "/", handlers |-> <<"validate", "createMemo">>],
     [method |-> "GET", path |-> "/user/:userId", handlers |-> <<"validate", "getMemosByUser">>],
     [method |-> "DELETE", path |-> "/:id", handlers |-> <<"validate", "deleteMemo">>] >>

\* the handlers Express runs for a request, in order, while each calls next()
RECURSIVE Chain(_, _)
Chain(req, k) ==
  IF k > Len(memoRouter) THEN <<>>
  ELSE LET layer == memoRouter[k]
       IN (IF layer.method = "*" \/ (layer.method = req.method /\ layer.path = req.path)
             THEN layer.handlers ELSE <<>>) \o Chain(req, k + 1)

\* the bearer of the token; NULL is a request without a valid token
TokenUsers == {NULL, "user1", "admin1", "admin2", "super1"}

MemoRequests ==
  [method : {"POST"}, path : {"/"}, user : TokenUsers, valid : BOOLEAN,
   userId : {"user1", "ghost"}, memoId : {0}]
  \cup [method : {"GET"}, path : {"/user/:userId"}, user : TokenUsers, valid : BOOLEAN,
        userId : {"user1"}, memoId : {0}]
  \cup [method : {"DELETE"}, path : {"/:id"}, user : TokenUsers, valid : BOOLEAN,
        userId : {NULL}, memoId : MemoIds]

\* authGuard(roles): 401 without a token, 403 for a role outside roles
authGuard(user, roles) ==
  IF user = NULL THEN 401
  ELSE IF MemoRoleOf(user) \notin roles THEN 403
  ELSE 0

\* validate(schema): a ZodError for a request the schema rejects
validate(req) ==
  IF req.valid THEN NoErr
  ELSE [kind |-> "ZodError", code |-> NULL, name |-> "ZodError", message |-> msgEmpty,
        statusCode |-> 0]

\* the Error a service call throws: 'Memo not found', 'Admin not found',
\* 'Unauthorized to delete this memo', 'User not found', 'Creator not found'
ThrownBy(err) ==
  CASE err = "MEMO_NOT_FOUND" -> serviceError(<<"M", "e", "m", "o", " ", "n", "o", "t", " ", "f", "o", "u", "n", "d">>)
    [] err = "ADMIN_NOT_FOUND" -> serviceError(<<"A", "d", "m", "i", "n", " ", "n", "o", "t", " ", "f", "o", "u", "n", "d">>)
    [] err = "UNAUTHORIZED" -> serviceError(<<"U", "n", "a", "u", "t", "h", "o", "r", "i", "z", "e", "d", " ", "t", "o", " ", "d", "e", "l", "e", "t", "e", " ", "t", "h", "i", "s", " ", "m", "e", "m", "o">>)
    [] err = "USER_NOT_FOUND" -> serviceError(<<"U", "s", "e", "r", " ", "n", "o", "t", " ", "f", "o", "u", "n", "d">>)
    [] err = "CREATOR_NOT_FOUND" -> serviceError(<<"C", "r", "e", "a", "t", "o", "r", " ", "n", "o", "t", " ", "f", "o", "u", "n", "d">>)
    [] OTHER -> NoErr

Answer(status) ==
  [memoReq EXCEPT !.stage = "sent", !.status = status,
                  !.ran = Append(@, Chain(memoReq.req, 1)[memoReq.k])]

Continue ==
  [memoReq EXCEPT !.k = @ + 1, !.ran = Append(@, Chain(memoReq.req, 1)[memoReq.k])]

\* a request arrives at the memo router; the model creates at most MaxMemos memos
memoReceive(req) ==
  /\ memoReq.stage \in {"idle", "sent"}
  /\ req.method = "POST" => nextMemoId <= MaxMemos
  /\ memoReq' = [stage |-> "run", req |-> req, k |-> 1, status |-> 0, ran |-> <<>>]
  /\ UNCHANGED <<memos, nextMemoId, memoOp, otherThanMemo>>

\* the next handler of the chain runs
memoStep ==
  /\ memoReq.stage = "run"
  /\ LET req == memoReq.req
         h == Chain(req, 1)[memoReq.k]
         data == [userId |-> req.userId, createdById |-> req.user]
     IN CASE h = "authGuard" ->
               /\ memoReq' = IF authGuard(req.user, {"ADMIN", "SUPER_ADMIN"}) = 0
                               THEN Continue
                               ELSE Answer(authGuard(req.user, {"ADMIN", "SUPER_ADMIN"}))
               /\ UNCHANGED <<memos, nextMemoId, memoOp>>
          [] h = "validate" ->
               /\ memoReq' = IF validate(req) = NoErr THEN Continue
                             ELSE Answer(errorStatus(validate(req)))
               /\ UNCHANGED <<memos, nextMemoId, memoOp>>
          [] h = "createMemo" ->
               /\ memos' = CreatedMemos(data)
               /\ nextMemoId' =
                    IF CreateMemoError(data) = "ok" THEN nextMemoId + 1 ELSE nextMemoId
               /\ memoOp' = OpRec("createMemo", CreateMemoError(data))
               /\ memoReq' = IF CreateMemoError(data) = "ok" THEN Answer(201)
                             ELSE Answer(errorStatus(ThrownBy(CreateMemoError(data))))
          [] h = "getMemosByUser" ->
               /\ memoReq' = Answer(200)
               /\ memoOp' = [op |-> "getMemosByUser", err |-> "ok",
                             memos |-> { m \in MemoIds :
                                           memos[m] # NoMemo /\ memos[m].userId = req.userId }]
               /\ UNCHANGED <<memos, nextMemoId>>
          [] h = "deleteMemo" ->
               /\ memos' = DeletedMemos(req.memoId, req.user)
               /\ memoOp' = OpRec("deleteMemo", DeleteMemoError(req.memoId, req.user))
               /\ memoReq' = IF DeleteMemoError(req.memoId, req.user) = "ok" THEN Answer(200)
                             ELSE Answer(errorStatus(ThrownBy(DeleteMemoError(req.memoId, req.user))))
               /\ UNCHANGED nextMemoId
  /\ UNCHANGED otherThanMemo

\* bodies and callers of direct service calls
MemoData == [userId : {"user1", "ghost"}, createdById : {"admin1", "super1", "ghost"}]

MemoActors == MemoUsers \cup {"ghost"}

InitMemo ==
  /\ memos = [m \in MemoIds |-> NoMemo]
  /\ nextMemoId = 1
  /\ memoOp = OpRec("none", "ok")
  /\ memoReq = [stage |-> "idle"]
  /\ InitAds /\ IdleVideo /\ IdleHttp /\ IdleErr /\ IdleCreate /\ IdleUser

NextMemo ==
  \/ \E data \in MemoData : createMemo(data)
  \/ \E u \in {"user1", "ghost"} : getMemosByUser(u)
  \/ \E m \in MemoIds, a \in MemoActors : deleteMemo(m, a)
  \/ \E req \in MemoRequests : memoReceive(req)
  \/ memoStep

SpecMemo == InitMemo /\ [][NextMemo]_vars

\* ------------------------------------------------------------ properties of the memos

\* the acting user exists and is the memo's creator or a SUPER_ADMIN
MayDelete(memoId, adminId) ==
  /\ memos[memoId] # NoMemo
  /\ adminId \in MemoUsers
  /\ (memos[memoId].createdById = adminId \/ MemoRoleOf(adminId) = "SUPER_ADMIN")

Before(ran, a, b) ==
  \A j \in 1..Len(ran) : ran[j] = b => \E i \in 1..(j - 1) : ran[i] = a

\* C10: deleteMemo removes the memo only when the acting user exists and is the
\* memo's creator or a SUPER_ADMIN, and otherwise throws and leaves the memos as
\* they are; every memo route runs the ADMIN/SUPER_ADMIN guard before the
\* validation and before the handler.
C10_DeleteMemoAuthorized ==
  [][/\ \A m \in MemoIds, a \in MemoActors :
          deleteMemo(m, a) =>
            IF MayDelete(m, a)
              THEN memoOp'.err = "ok" /\ memos' = [memos EXCEPT ![m] = NoMemo]
              ELSE memoOp'.err # "ok" /\ memos' = memos
     /\ \A m \in MemoIds : (memos[m] # NoMemo /\ memos'[m] = NoMemo) =>
          \/ \E a \in MemoActors : deleteMemo(m, a) /\ MayDelete(m, a)
          \/ /\ memoStep
             /\ memoReq.req.method = "DELETE" /\ memoReq.req.memoId = m
             /\ MayDelete(m, memoReq.req.user)
     /\ memoReq'.stage \in {"run", "sent"} =>
          /\ \A h \in {"validate", "createMemo", "getMemosByUser", "deleteMemo"} :
               Before(memoReq'.ran, "authGuard", h)
          /\ (\E j \in 1..Len(memoReq'.ran) : memoReq'.ran[j] # "authGuard") =>
               /\ memoReq'.req.user # NULL
               /\ MemoRoleOf(memoReq'.req.user) \in {"ADMIN", "SUPER_ADMIN"}]_vars

\* C10 witness: an ADMIN who is not the creator was refused by the delete route
\* with the memo still there
C10_Witness ==
  /\ memoReq.stage = "sent"
  /\ memoReq.req.method = "DELETE"
  /\ memoReq.req.user = "admin2"
  /\ memoReq.ran = <<"authGuard", "validate", "deleteMemo">>
  /\ memoReq.status = 401
  /\ memoOp = OpRec("deleteMemo", "UNAUTHORIZED")
  /\ memos[memoReq.req.memoId] # NoMemo
  /\ memos[memoReq.req.memoId].createdById = "admin1"

\* ------------------------------------------------------------ ad lifecycle
\* rows of the ad table; a rejection reason is left on PENDING and REJECTED rows only
LifecycleRows ==
  { r \in [advertiserId : {"adv1"}, position : {"HEADER"}, startDate : {0, 1},
           endDate : {1, 2}, type : {"BANNER_TOP"},
           status : {"PENDING", "ACTIVE", "PAUSED", "REJECTED"}, isPaid : BOOLEAN,
           rejectionReason : {NULL, "old"}, impressions : {0}, clicks : {0},
           activeTxn : {FALSE}] :
      /\ <<r.startDate, r.endDate>> \in {<<0, 1>>, <<1, 2>>}
      /\ r.rejectionReason = "old" => r.status \in {"PENDING", "REJECTED"} }

\* the row of another advertiser's running ad
OtherRow ==
  [advertiserId |-> "adv2", position |-> "SIDEBAR", startDate |-> 0, endDate |-> 1,
   type |-> "BANNER_TOP", status |-> "ACTIVE", isPaid |-> TRUE, rejectionReason |-> NULL,
   impressions |-> 0, clicks |-> 0, activeTxn |-> FALSE]

InitLifecycle ==
  /\ ads \in [AdIds -> LifecycleRows \cup {NoAd, OtherRow}]
  /\ ads[1] # OtherRow
  /\ \A i \in AdIds \ {1} : ads[i] \in {NoAd, OtherRow}
  /\ nextAdId = MaxAds + 1
  /\ now \in Dates
  /\ adOp = OpRec("none", "ok")
  /\ adOut = NoOut
  /\ opCount = 0
  /\ immediateQueue = <<>>
  /\ IdleVideo /\ IdleMemo /\ IdleHttp /\ IdleErr /\ IdleCreate /\ IdleUser

NextLifecycle ==
  \/ \E i \in AdIds : approveAd(i)
  \/ \E i \in AdIds : rejectAd(i, "spam")
  \/ \E i \in AdIds, u \in AuthCallers : pauseAd(i, u, RoleOf(u))
  \/ \E i \in AdIds, u \in AuthCallers : resumeAd(i, u, RoleOf(u))
  \/ \E e \in WebhookEvents : handleStripeWebhook(e)
  \/ Return

SpecLifecycle == InitLifecycle /\ [][NextLifecycle]_vars

\* ------------------------------------------------------------ properties of the lifecycle

\* C11: approveAd changes an ad only when it exists, is PENDING and is paid: the
\* status becomes ACTIVE and rejectionReason null; in every other case it throws
\* and the ads are unchanged.
C11_ApproveOnlyPaidPending ==
  [][\A i \in AdIds :
       approveAd(i) =>
         IF ads[i] # NoAd /\ ads[i].status = "PENDING" /\ ads[i].isPaid
           THEN /\ adOp'.err = "ok"
                /\ ads' = [ads EXCEPT ![i].status = "ACTIVE", ![i].rejectionReason = NULL]
           ELSE adOp'.err # "ok" /\ ads' = ads]_vars

\* C11 witness: a paid PENDING ad was approved
C11_Witness ==
  /\ adOp = OpRec("approveAd", "ok")
  /\ opCount = 1
  /\ ads[1].status = "ACTIVE" /\ ads[1].isPaid /\ ads[1].rejectionReason = NULL

Authorized(i, u) == RoleOf(u) # "ADVERTISER" \/ ads[i].advertiserId = u

\* C12: rejectAd acts only on a PENDING ad (REJECTED, reason stored), pauseAd only on
\* an ACTIVE ad (PAUSED), resumeAd only on a PAUSED ad; in any other status the call
\* throws and the ads are unchanged.
C12_SourceStatus ==
  [][\A i \in AdIds :
       /\ rejectAd(i, "spam") =>
            IF ads[i] # NoAd /\ ads[i].status = "PENDING"
              THEN /\ adOp'.err = "ok"
                   /\ ads' = [ads EXCEPT ![i].status = "REJECTED", ![i].rejectionReason = "spam"]
              ELSE adOp'.err # "ok" /\ ads' = ads
       /\ \A u \in AuthCallers :
            /\ pauseAd(i, u, RoleOf(u)) =>
                 IF ads[i] # NoAd /\ ads[i].status = "ACTIVE"
                   THEN Authorized(i, u) =>
                          adOp'.err = "ok" /\ ads' = [ads EXCEPT ![i].status = "PAUSED"]
                   ELSE adOp'.err # "ok" /\ ads' = ads
            /\ resumeAd(i, u, RoleOf(u)) =>
                 IF ads[i] # NoAd /\ ads[i].status = "PAUSED"
                   THEN \E s \in {"PAUSED", "ACTIVE", "PENDING"} :
                          ads' = [ads EXCEPT ![i].status = s]
                   ELSE adOp'.err # "ok" /\ ads' = ads]_vars

\* C12 witness: a PENDING ad that carried an earlier reason was rejected
C12_Witness ==
  /\ adOp = OpRec("rejectAd", "ok")
  /\ opCount = 1
  /\ ads[1].status = "REJECTED" /\ ads[1].rejectionReason = "spam"

\* C13: handleStripeWebhook changes state only for payment_intent.succeeded with an
\* adId: that ad becomes paid and ACTIVE and no other ad changes; any other event
\* changes no ad; handling a succeeded event again changes nothing more.
C13_WebhookFrame ==
  [][\A e \in WebhookEvents :
       handleStripeWebhook(e) =>
         /\ IF e.type = "payment_intent.succeeded" /\ e.adId # 0 /\ ads[e.adId] # NoAd
              THEN ads' = [ads EXCEPT ![e.adId].isPaid = TRUE, ![e.adId].status = "ACTIVE"]
              ELSE ads' = ads
         /\ (adOp = OpRec("none", "ok") /\ e.adId # 0 /\ ads[e.adId] # NoAd
               /\ ads[e.adId].isPaid /\ ads[e.adId].status = "ACTIVE") => ads' = ads]_vars

\* C13 witness: the payment of a rejected or pending ad made it ACTIVE and paid
C13_Witness ==
  /\ adOp = OpRec("handleStripeWebhook", "ok")
  /\ ads[1].status = "ACTIVE" /\ ads[1].isPaid /\ ads[1].rejectionReason = "old"

\* C19: resumeAd on a PAUSED ad throws and leaves it PAUSED when endDate < now; when
\* startDate > now the status becomes ACTIVE for a paid ad and PENDING otherwise;
\* when startDate <= now <= endDate it becomes ACTIVE.
C19_ResumeByDates ==
  [][\A i \in AdIds, u \in AuthCallers :
       (resumeAd(i, u, RoleOf(u)) /\ ads[i] # NoAd /\ ads[i].status = "PAUSED"
          /\ Authorized(i, u)) =>
         IF ads[i].endDate < now
           THEN adOp'.err = "EXPIRED" /\ ads' = ads
         ELSE IF ads[i].startDate > now
           THEN /\ adOp'.err = "ok"
                /\ ads' = [ads EXCEPT ![i].status = IF ads[i].isPaid THEN "ACTIVE" ELSE "PENDING"]
         ELSE adOp'.err = "ok" /\ ads' = [ads EXCEPT ![i].status = "ACTIVE"]]_vars

\* C19 witness: an unpaid PAUSED ad that has not started was resumed to PENDING
C19_Witness ==
  /\ adOp = OpRec("resumeAd", "ok")
  /\ opCount = 1
  /\ ads[1].status = "PENDING" /\ ~ads[1].isPaid /\ ads[1].startDate > now

\* ------------------------------------------------------------ booked ranges
\* the AND of the two where-clauses of getCalendar
CalendarOverlap(a, startDate, endDate) ==
  a.startDate <= endDate /\ a.endDate >= startDate

\* rows found by getCalendar for the month [startDate, endDate]
bookedAds(table, startDate, endDate) ==
  { i \in AdIds :
      /\ table[i] # NoAd
      /\ table[i].status \in {"ACTIVE", "PENDING"}
      /\ CalendarOverlap(table[i], startDate, endDate) }

getCalendar(startDate, endDate) ==
  /\ Handled
  /\ adOp' = OpRec("getCalendar", "ok")
  /\ adOut' = [kind |-> "calendar", startDate |-> startDate, endDate |-> endDate,
               ids |-> bookedAds(ads, startDate, endDate)]
  /\ UNCHANGED <<ads, nextAdId, now, immediateQueue>>

\* a direct call of the public method checkBookingConflict
callCheckBookingConflict(startDate, endDate, position) ==
  /\ Handled
  /\ adOp' = OpRec("checkBookingConflict", "ok")
  /\ adOut' = [kind |-> "conflict", startDate |-> startDate, endDate |-> endDate,
               isConflict |-> checkBookingConflict(ads, startDate, endDate, position, 0)]
  /\ UNCHANGED <<ads, nextAdId, now, immediateQueue>>

\* stored rows whose range has startDate <= endDate
RangeRows ==
  { r \in [advertiserId : {"adv1"}, position : {"HEADER", "SIDEBAR"}, startDate : Dates,
           endDate : Dates, type : {"BANNER_TOP"}, status : {"ACTIVE", "PENDING", "PAUSED"},
           isPaid : {TRUE}, rejectionReason : {NULL}, impressions : {0}, clicks : {0},
           activeTxn : {FALSE}] : r.startDate <= r.endDate }

InitRanges ==
  /\ ads \in [AdIds -> RangeRows \cup {NoAd, OtherRow}]
  /\ ads[1] # OtherRow
  /\ \A i \in AdIds \ {1} : ads[i] \in {NoAd, OtherRow}
  /\ nextAdId = MaxAds + 1
  /\ now = 0
  /\ adOp = OpRec("none", "ok")
  /\ adOut = NoOut
  /\ opCount = 0
  /\ immediateQueue = <<>>
  /\ IdleVideo /\ IdleMemo /\ IdleHttp /\ IdleErr /\ IdleCreate /\ IdleUser

NextRanges ==
  \/ \E s \in Dates, e \in Dates, p \in Positions :
       s <= e /\ callCheckBookingConflict(s, e, p)
  \/ \E s \in Dates, e \in Dates : s <= e /\ getCalendar(s, e)
  \/ Return

SpecRanges == InitRanges /\ [][NextRanges]_vars

\* ------------------------------------------------------------ properties of booked ranges

\* C17: for ranges with start <= end the four-clause OR of checkBookingConflict is
\* true exactly when getCalendar's overlap test holds (existing.startDate <=
\* new.endDate and existing.endDate >= new.startDate), so a conflict is reported
\* exactly when getCalendar finds a booked ad of the position in that range.
C17_ClausesAreOverlap ==
  [][\A s \in Dates, e \in Dates, p \in Positions :
       (s <= e /\ callCheckBookingConflict(s, e, p)) =>
         /\ \A i \in AdIds :
              Exists(i) => (ConflictClauses(ads[i], s, e) <=> CalendarOverlap(ads[i], s, e))
         /\ adOut'.isConflict <=>
              \E i \in bookedAds(ads, s, e) : p # "" => ads[i].position = p]_vars

\* C17 witness: a conflict reported for a new range that strictly contains the stored one
C17_Witness ==
  /\ adOut.kind = "conflict"
  /\ adOut.isConflict
  /\ \A i \in AdIds \ {1} : ads[i] = NoAd
  /\ ads[1] # NoAd
  /\ adOut.startDate < ads[1].startDate /\ ads[1].endDate < adOut.endDate

\* ------------------------------------------------------------ properties of updateAd

\* the request passes every check of updateAd that precedes the booking check
ReachesBookingCheck(i, d, u) ==
  /\ Exists(i)
  /\ (RoleOf(u) = "ADVERTISER" => ads[i].advertiserId = u)
  /\ d.price # "bad"
  /\ (d.startDate # NoDate => d.startDate >= StartOfDay(now))
  /\ (d.startDate # NoDate /\ d.endDate # NoDate => d.endDate > d.startDate)

\* another ACTIVE or PENDING ad of the effective position overlaps the effective range
OtherBooking(i, d) ==
  \E j \in AdIds \ {i} :
    /\ Exists(j)
    /\ ads[j].status \in {"ACTIVE", "PENDING"}
    /\ ads[j].position = PositionToCheck(ads[i], d)
    /\ SharesInstant(ads[j], StartDateToCheck(ads[i], d), EndDateToCheck(ads[i], d))

C20_EndAfterStart ==
  \A i \in AdIds : Exists(i) => ads[i].endDate > ads[i].startDate

\* ------------------------------------------------------------ ad rotation
\* running ads a public slot request can meet
SampleRows ==
  [advertiserId : {"adv1"}, position : {"HEADER", ""}, startDate : {0}, endDate : {MaxDate},
   type : {"BANNER_TOP", "SLIDER"}, status : {"ACTIVE"}, isPaid : {TRUE},
   rejectionReason : {NULL}, impressions : {0, 2}, clicks : {0}, activeTxn : {FALSE}]

SampleQueries ==
  [status : {UNDEF}, type : {UNDEF}, slot : {"HEADER", "FOOTER"}, page : {1}, limit : {1, 10}]

InitSample ==
  /\ ads \in [AdIds -> SampleRows \cup {NoAd, [OtherRow EXCEPT !.position = "HEADER"]}]
  /\ \A i \in AdIds : i <= 2 <=> ads[i] \in SampleRows \cup {NoAd}
  /\ nextAdId = MaxAds + 1
  /\ now = 0
  /\ adOp = OpRec("none", "ok")
  /\ adOut = NoOut
  /\ opCount = 0
  /\ immediateQueue = <<>>
  /\ IdleVideo /\ IdleMemo /\ IdleHttp /\ IdleErr /\ IdleCreate /\ IdleUser

NextSample ==
  \/ \E q \in SampleQueries, sel \in AdIds \cup {0} : getAds(q, NULL, NULL, sel)
  \/ Return

SpecSample == InitSample /\ [][NextSample]_vars

\* ------------------------------------------------------------ properties of the rotation

\* C15: for a public slot request with a matching ad the sampler picks a matching
\* ad and can pick every matching ad; the result is the picked ad alone with total
\* 1, or, when the picked ad is a SLIDER or SLIDER_TOP, the first `limit` matching
\* ads with total = number of matching ads; with no matching ad the result is the
\* empty list with total 0 and totalPages 0.
C15_WeightedRotation ==
  [][\A q \in SampleQueries, sel \in AdIds \cup {0} :
       getAds(q, NULL, NULL, sel) =>
         LET matching == MatchingIds(q, NULL, NULL) IN
         IF matching = {}
           THEN adOut'.ads = <<>> /\ adOut'.total = 0 /\ adOut'.totalPages = 0
           ELSE /\ sel \in matching
                /\ \A matchingAds \in Orderings(matching) : Selectable(matchingAds) = matching
                /\ IF ads[sel].type \in {"SLIDER", "SLIDER_TOP"}
                     THEN /\ adOut'.total = Cardinality(matching)
                          /\ \E matchingAds \in Orderings(matching) :
                               adOut'.ads = SubSeq(matchingAds, 1, Min(q.limit, Len(matchingAds)))
                     ELSE adOut'.ads = <<sel>> /\ adOut'.total = 1]_vars

\* C15 witness: of two matching ads the second, with more impressions, was picked
C15_Witness ==
  /\ adOp.op = "getAds"
  /\ adOut.ads = <<2>> /\ adOut.total = 1
  /\ ads[1] # NoAd /\ ads[1].position = "HEADER" /\ ads[1].impressions = 0
  /\ ads[2] # NoAd /\ ads[2].position = "" /\ ads[2].impressions = 2

\* ------------------------------------------------------------ concurrent createAd
\* createAd calls in progress; each call waits for the conflict query and then for
\* the insert
ReqIds == DOMAIN creating

RaceInputs ==
  [startDate : {0, 1}, endDate : {1, 2}, position : {"HEADER", "SIDEBAR"},
   price : {"none"}, type : {"BANNER_TOP"}]

\* createAd up to the answer of `await this.checkBookingConflict`
createAdCheck(r, data, userId) ==
  /\ creating[r].pc = "idle"
  /\ nextAdId <= MaxAds
  /\ creating' = [creating EXCEPT ![r] =
                    [pc |-> IF CreateAdError(data) = "ok" THEN "checked" ELSE "thrown",
                     data |-> data, userId |-> userId]]
  /\ UNCHANGED <<adVars, videoVars, memoVars, http, errVars, tracking, userVars>>

\* createAd from the answer of the conflict query to `prisma.ad.create`
createAdInsert(r) ==
  /\ creating[r].pc = "checked"
  /\ nextAdId <= MaxAds
  /\ ads' = [ads EXCEPT ![nextAdId] =
               NewAd(creating[r].data, creating[r].userId, RoleOf(creating[r].userId))]
  /\ nextAdId' = nextAdId + 1
  /\ creating' = [creating EXCEPT ![r].pc = "created"]
  /\ UNCHANGED <<now, immediateQueue, adOp, adOut, opCount>>
  /\ UNCHANGED <<videoVars, memoVars, http, errVars, tracking, userVars>>

\* the call returns or throws to its caller
createAdSettle(r) ==
  /\ creating[r].pc \in {"created", "thrown"}
  /\ creating' = [creating EXCEPT ![r] = [pc |-> "idle"]]
  /\ UNCHANGED <<adVars, videoVars, memoVars, http, errVars, tracking, userVars>>

InitRace == InitAds /\ IdleVideo /\ IdleMemo /\ IdleHttp /\ IdleErr /\ IdleCreate /\ IdleUser

NextRace ==
  \/ \E r \in ReqIds, d \in RaceInputs, u \in AdCallers : createAdCheck(r, d, u)
  \/ \E r \in ReqIds : createAdInsert(r)
  \/ \E r \in ReqIds : createAdSettle(r)

SpecRace == InitRace /\ [][NextRace]_vars

\* ------------------------------------------------------------ properties of concurrent createAd

\* C16: of two concurrent createAd calls for the same position with overlapping
\* date ranges at most one creates an ad.
C16_AtMostOneCreated ==
  \A r1, r2 \in ReqIds :
    (/\ r1 # r2
     /\ creating[r1].pc = "created"
     /\ creating[r2].pc = "created"
     /\ creating[r1].data.position = creating[r2].data.position
     /\ creating[r1].data.position # "")
      => ~SharesInstant(creating[r1].data, creating[r2].data.startDate,
                        creating[r2].data.endDate)

\* ------------------------------------------------------------ UserService
\* the tables of db hold, per row, the user ids the row refers to: news by authorId,
\* chat by <<senderId, receiverId>>, memo by createdById, the others by userId
RelatedOps == {"chat", "transaction", "report", "auditLog", "ad"}

\* tables in which a row refers to user id
References(d, table, id) ==
  { t \in {"news", "transaction", "report", "auditLog", "bookmark", "memo"} : id \in d[t] }
  \cup (IF \E c \in d.chat : c[1] = id \/ c[2] = id THEN {"chat"} ELSE {})
  \cup (IF \E i \in AdIds : table[i] # NoAd /\ table[i].advertiserId = id
          THEN {"ad"} ELSE {})

otherThanUser == <<nextAdId, now, immediateQueue, adOp, adOut, opCount, videoVars, memoVars,
                   http, errVars, creating, tracking>>

deleteUser_NoNewsCheck(id) ==
  /\ del.pc = "idle"
  /\ del' = [pc |-> "all", id |-> id, pending |-> RelatedOps]
  /\ UNCHANGED <<db, ads, otherThanUser>>

\* deleteUser up to the start of Promise.all
deleteUser(id) ==
  /\ del.pc = "idle"
  /\ del' = IF id \in db.news
              THEN [pc |-> "thrown", id |-> id, err |-> "HAS_NEWS"]
              ELSE [pc |-> "all", id |-> id, pending |-> RelatedOps]
  /\ UNCHANGED <<db, ads, otherThanUser>>

\* one of the five statements of Promise.all completes
deleteRelated(op) ==
  /\ del.pc = "all"
  /\ op \in del.pending
  /\ del' = [del EXCEPT !.pending = @ \ {op}]
  /\ db' = CASE op = "chat" ->
                  [db EXCEPT !.chat = { c \in @ : c[1] # del.id /\ c[2] # del.id }]
             [] op \in {"transaction", "report", "auditLog"} ->
                  [db EXCEPT ![op] = @ \ {del.id}]
             [] OTHER -> db
  /\ ads' = IF op = "ad"
              THEN [i \in AdIds |->
                      IF ads[i] # NoAd /\ ads[i].advertiserId = del.id
                        THEN [ads[i] EXCEPT !.advertiserId = NULL]
                        ELSE ads[i]]
              ELSE ads
  /\ UNCHANGED otherThanUser

\* prisma.bookmark.deleteMany, after Promise.all has resolved
deleteBookmarks ==
  /\ del.pc = "all"
  /\ del.pending = {}
  /\ db' = [db EXCEPT !.bookmark = @ \ {del.id}]
  /\ del' = [pc |-> "delete", id |-> del.id]
  /\ UNCHANGED <<ads, otherThanUser>>

\* prisma.user.delete; a row that still refers to the user either blocks the delete
\* or is deleted with the user, as its foreign key says
deleteUserRow(cascade) ==
  /\ del.pc = "delete"
  /\ IF del.id \notin db.user
       THEN /\ del' = [pc |-> "thrown", id |-> del.id, err |-> "P2025"]
            /\ UNCHANGED db
     ELSE IF References(db, ads, del.id) # {} /\ ~cascade
       THEN /\ del' = [pc |-> "thrown", id |-> del.id, err |-> "P2003"]
            /\ UNCHANGED db
     ELSE /\ del' = [pc |-> "deleted", id |-> del.id]
          /\ db' = [t \in DOMAIN db |->
                      IF t = "chat" THEN { c \in db.chat : c[1] # del.id /\ c[2] # del.id }
                      ELSE db[t] \ {del.id}]
  /\ UNCHANGED <<ads, otherThanUser>>

\* the call returns or throws to its caller
deleteSettle ==
  /\ del.pc \in {"thrown", "deleted"}
  /\ del' = [pc |-> "idle"]
  /\ UNCHANGED <<db, ads, otherThanUser>>

InitUser ==
  /\ db \in [user : {{"user1", "adv1", "admin1"}}, news : SUBSET {"user1"},
            chat : SUBSET {<<"user1", "adv1">>, <<"adv1", "user1">>, <<"adv1", "admin1">>},
            transaction : SUBSET {"user1"}, report : SUBSET {"user1"},
            auditLog : SUBSET {"user1"}, bookmark : SUBSET {"user1"},
            memo : SUBSET {"user1"}]
  /\ del = [pc |-> "idle"]
  /\ ads \in [AdIds -> {NoAd, [OtherRow EXCEPT !.advertiserId = "user1"]}]
  /\ \A i \in AdIds \ {1} : ads[i] = NoAd
  /\ nextAdId = MaxAds + 1
  /\ now = 0
  /\ adOp = OpRec("none", "ok")
  /\ adOut = NoOut
  /\ opCount = 0
  /\ immediateQueue = <<>>
  /\ IdleVideo /\ IdleMemo /\ IdleHttp /\ IdleErr /\ IdleCreate

NextUser ==
  \/ \E id \in {"user1", "adv1"} : deleteUser(id)
  \/ \E op \in RelatedOps : deleteRelated(op)
  \/ deleteBookmarks
  \/ \E cascade \in BOOLEAN : deleteUserRow(cascade)
  \/ deleteSettle

SpecUser == InitUser /\ [][NextUser]_vars

\* ------------------------------------------------------------ properties of deleteUser

\* C14: deleteUser throws and changes nothing when the user has authored news;
\* otherwise the user row is removed only after the user's chats, transactions,
\* reports, audit logs and bookmarks are deleted and the user's ads have
\* advertiserId null, and once it is removed no row refers to the user.
C14_DeleteUserOrder ==
  [][/\ \A id \in {"user1", "adv1"} :
          (deleteUser(id) /\ id \in db.news) =>
            del'.pc = "thrown" /\ db' = db /\ ads' = ads
     /\ (del.pc = "thrown" /\ del.err = "HAS_NEWS") => (db' = db /\ ads' = ads)
     /\ db'.user # db.user =>
          /\ del.pc = "delete"
          /\ db'.user = db.user \ {del.id}
          /\ References(db, ads, del.id) \cap
               {"chat", "transaction", "report", "auditLog", "bookmark", "ad"} = {}
          /\ References(db', ads', del.id) = {}]_vars

\* C14 witness: the user is deleted, the ad it owned has advertiserId null and the
\* chat between two other users is kept
C14_Witness ==
  /\ del.pc = "deleted"
  /\ del.id = "user1"
  /\ ads[1] # NoAd /\ ads[1].advertiserId = NULL
  /\ db.chat = {<<"adv1", "admin1">>}
  /\ "user1" \notin db.user

\* ------------------------------------------------------------ payment and status
NextPaid ==
  \/ \E d \in {[startDate |-> 0, endDate |-> 1, position |-> "", price |-> "none",
                type |-> "BANNER_TOP"],
               [startDate |-> 1, endDate |-> 2, position |-> "", price |-> "none",
                type |-> "BANNER_TOP"]}, u \in AdCallers : createAd(d, u, RoleOf(u))
  \/ \E i \in AdIds, u \in AdCallers, ok \in BOOLEAN : createPaymentIntent(i, u, ok)
  \/ \E i \in AdIds : approveAd(i)
  \/ \E i \in AdIds : rejectAd(i, "reason")
  \/ \E i \in AdIds, u \in AdCallers : pauseAd(i, u, RoleOf(u))
  \/ \E i \in AdIds, u \in AdCallers : resumeAd(i, u, RoleOf(u))
  \/ \E e \in WebhookEvents : handleStripeWebhook(e)
  \/ Return
  \/ Tick

SpecPaid == Init /\ [][NextPaid]_vars

\* ------------------------------------------------------------ properties of payment and status

\* C21: in every state reached through createAd, approveAd, rejectAd, pauseAd,
\* resumeAd and handleStripeWebhook an ad with status ACTIVE has isPaid = true.
C21_ActiveIsPaid ==
  \A i \in AdIds : (Exists(i) /\ ads[i].status = "ACTIVE") => ads[i].isPaid

\* C21 witness: an advertiser's ad, paid through the webhook and paused, was resumed
\* to ACTIVE
C21_Witness ==
  /\ adOp = OpRec("resumeAd", "ok")
  /\ ads[1] # NoAd
  /\ ads[1].advertiserId = "adv1"
  /\ ads[1].status = "ACTIVE" /\ ads[1].isPaid

\* C22: once an ad has status REJECTED no later createPaymentIntent,
\* handleStripeWebhook, approveAd, rejectAd, pauseAd or resumeAd call makes it ACTIVE.
\* Of these calls only handleStripeWebhook writes a REJECTED row, so the ad leaves
\* REJECTED for ACTIVE in one call or not at all: no call on a REJECTED ad leaves it
\* ACTIVE.
C22_RejectedStaysInactive ==
  [][\A i \in AdIds :
       (ads[i] # NoAd /\ ads[i].status = "REJECTED")
         => (ads'[i] # NoAd => ads'[i].status # "ACTIVE")]_vars

\* ------------------------------------------------------------ pending videos
\* getPendingVideos: the VIDEO rows that are PENDING or FAILED, oldest first (v1 was
\* created before v2), at most limit of them
getPendingVideos(limit) ==
  LET pending(m) == /\ media[m] # NoMedia
                    /\ media[m].type = "VIDEO"
                    /\ media[m].processingStatus \in {"PENDING", "FAILED"}
      all == (IF pending("v1") THEN <<"v1">> ELSE <<>>)
             \o (IF pending("v2") THEN <<"v2">> ELSE <<>>)
  IN SubSeq(all, 1, Min(limit, Len(all)))

\* the caller of processVideos receives { success, failed }
batchSettle ==
  /\ batch.state = "done"
  /\ batch' = [state |-> "idle"]
  /\ UNCHANGED <<media, pv, otherThanVideo>>

\* one round of a loop that takes getPendingVideos and passes the ids to
\* processVideos; the loop ends when no video is found
pollPending(limit) ==
  /\ videoIdle
  /\ IF getPendingVideos(limit) = <<>>
       THEN /\ batch' = [state |-> "drained"]
            /\ UNCHANGED <<media, pv, otherThanVideo>>
       ELSE processVideos(getPendingVideos(limit))

\* every video processes without error
NextPoll ==
  \/ \E limit \in {1, 10} : pollPending(limit)
  \/ batchCall
  \/ pvFileCheck(TRUE)
  \/ pvExtract(TRUE)
  \/ \E ok \in BOOLEAN : pvThumbnail(ok)
  \/ pvSave
  \/ batchNext
  \/ batchReturn
  \/ batchSettle

SpecPoll == InitVideo /\ [][NextPoll]_vars /\ WF_vars(NextPoll)

\* ------------------------------------------------------------ properties of pending videos

\* C23: a video whose processVideo run returned is no longer returned by
\* getPendingVideos, and the loop over getPendingVideos and processVideos
\* eventually finds no video to process when every video processes without error.
C23_LoopDrains ==
  /\ [](pv.pc = "returned" =>
          \A k \in 1..Len(getPendingVideos(10)) : getPendingVideos(10)[k] # pv.mediaId)
  /\ <>(batch.state = "drained")

\* ------------------------------------------------------------ properties of thumbnail failure

\* C24: a failure of thumbnail generation alone never makes processVideo fail: the
\* call goes on to the final update, returns, stores the metadata, does not write
\* thumbnailUrl and leaves the status COMPLETED or PENDING; on a missing or non-VIDEO
\* row processVideo throws before any write.
C24_ThumbnailFailureTolerated ==
  [][/\ pvThumbnail(FALSE) => (pv'.pc = "save" /\ pv'.err = "none" /\ media' = media)
     /\ (pvSave /\ pv.thumbnailUrl = UNDEF) =>
          /\ pv'.pc = "returned"
          /\ media'[pv.mediaId].duration = "meta"
          /\ media'[pv.mediaId].thumbnailUrl = media[pv.mediaId].thumbnailUrl
          /\ media'[pv.mediaId].processingStatus \in {"COMPLETED", "PENDING"}
     /\ \A m \in MediaIds :
          ((processVideo(m) \/ (batchCall /\ batch.mediaIds[batch.k] = m))
             /\ (media[m] = NoMedia \/ media[m].type # "VIDEO")) =>
            pv'.pc = "thrown" /\ media' = media]_vars

\* C24 witness: a run whose thumbnail generation failed has returned, with the
\* metadata stored and no thumbnail
C24_Witness ==
  /\ pv.pc = "returned"
  /\ pv.thumbnailUrl = UNDEF
  /\ media[pv.mediaId].duration = "meta"
  /\ media[pv.mediaId].thumbnailUrl = NULL
  /\ media[pv.mediaId].processingStatus = "COMPLETED"

\* ------------------------------------------------------------ concurrent tracking
\* trackImpression / trackClick calls in progress: the update statement is sent,
\* the database executes it, the call queues the GA4 callback and returns
trackBegin(r, kind, adId) ==
  /\ tracking[r].pc = "idle"
  /\ opCount < MaxOps
  /\ opCount' = opCount + 1
  /\ tracking' = [tracking EXCEPT ![r] = [pc |-> "sent", kind |-> kind, adId |-> adId]]
  /\ UNCHANGED <<ads, nextAdId, now, immediateQueue, adOp, adOut>>
  /\ UNCHANGED <<videoVars, memoVars, http, errVars, creating, userVars>>

increment_Overwrite(table, adId, field) == [table EXCEPT ![adId][field] = 1]

\* data: { <field>: { increment: 1 } }: one UPDATE that adds 1 to the stored value
increment(table, adId, field) == [table EXCEPT ![adId][field] = @ + 1]

\* the database executes prisma.ad.update of call r; P2025 on a missing row
trackUpdate(r) ==
  /\ tracking[r].pc = "sent"
  /\ IF Exists(tracking[r].adId)
       THEN /\ ads' = increment(ads, tracking[r].adId,
                                IF tracking[r].kind = "trackImpression"
                                  THEN "impressions" ELSE "clicks")
            /\ tracking' = [tracking EXCEPT ![r].pc = "updated"]
       ELSE /\ ads' = ads
            /\ tracking' = [tracking EXCEPT ![r].pc = "thrown"]
  /\ UNCHANGED <<nextAdId, now, immediateQueue, adOp, adOut, opCount>>
  /\ UNCHANGED <<videoVars, memoVars, http, errVars, creating, userVars>>

\* the call goes on after its await: setImmediate and return, or the rejection
trackSettle(r) ==
  /\ tracking[r].pc \in {"updated", "thrown"}
  /\ immediateQueue' =
       IF tracking[r].pc = "updated"
         THEN Append(immediateQueue, [kind |-> tracking[r].kind, adId |-> tracking[r].adId])
         ELSE immediateQueue
  /\ tracking' = [tracking EXCEPT ![r] = [pc |-> "idle"]]
  /\ UNCHANGED <<ads, nextAdId, now, adOp, adOut, opCount>>
  /\ UNCHANGED <<videoVars, memoVars, http, errVars, creating, userVars>>

InitTrack ==
  /\ ads \in [AdIds -> {NoAd, OtherRow}]
  /\ nextAdId = MaxAds + 1
  /\ now = 0
  /\ adOp = OpRec("none", "ok")
  /\ adOut = NoOut
  /\ opCount = 0
  /\ immediateQueue = <<>>
  /\ IdleVideo /\ IdleMemo /\ IdleHttp /\ IdleErr /\ IdleCreate /\ IdleUser

NextTrack ==
  \/ \E r \in DOMAIN tracking, kind \in {"trackImpression", "trackClick"}, i \in AdIds :
       trackBegin(r, kind, i)
  \/ \E r \in DOMAIN tracking : trackUpdate(r)
  \/ \E r \in DOMAIN tracking : trackSettle(r)

SpecTrack == InitTrack /\ [][NextTrack]_vars

\* ------------------------------------------------------------ properties of concurrent tracking

\* the calls of the kind on ad i whose update has succeeded
Succeeded(kind, i) ==
  Cardinality({ k \in 1..Len(immediateQueue) :
                  immediateQueue[k].kind = kind /\ immediateQueue[k].adId = i })
  + Cardinality({ r \in DOMAIN tracking :
                    /\ tracking[r].pc = "updated"
                    /\ tracking[r].kind = kind
                    /\ tracking[r].adId = i })

\* C25: after any interleaving of N trackImpression and M trackClick calls on an
\* ad that all succeed, impressions has grown by exactly N and clicks by exactly M.
C25_NoLostUpdate ==
  \A i \in AdIds :
    Exists(i) =>
      /\ ads[i].impressions = Succeeded("trackImpression", i)
      /\ ads[i].clicks = Succeeded("trackClick", i)

\* C25 witness: an impression call and a click call on one ad have both updated
\* and not yet returned, after an earlier impression call on it returned
C25_Witness ==
  /\ Exists(1)
  /\ ads[1].impressions = 2
  /\ ads[1].clicks = 1
  /\ tracking[1] = [pc |-> "updated", kind |-> "trackImpression", adId |-> 1]
  /\ tracking[2] = [pc |-> "updated", kind |-> "trackClick", adId |-> 1]

====
